---- MODULE Spec2Model ----
(***************************************************************************)
(* Model of jumpboot-mcp: the resource registry and process supervisor    *)
(* (internal/manager/manager.go), the federation aggregator (package      *)
(* proxy) and the workspace path guard (safeJoinPath).                    *)
(*                                                                         *)
(* Three specifications share the module:                                 *)
(*   Spec      the Manager: environments, REPL sessions, spawned          *)
(*             processes, their locks and goroutines;                     *)
(*   AggSpec   the ToolAggregator and its RemoteClients;                  *)
(*   PathSpec  safeJoinPath applied to every bounded (base, rel) input.   *)
(***************************************************************************)
EXTENDS Integers, Sequences, FiniteSets, TLC

VARIABLES
    \* ---- path guard (safeJoinPath) ----
    pgPc,        \* "idle" | "input" | "done"
    pgBase,      \* base directory, a sequence of characters
    pgRel,       \* candidate relative path, a sequence of characters
    pgOut,       \* [ok |-> BOOLEAN, path |-> string, err |-> string]
    wsOp,        \* the workspace operation called, "none" for a bare safeJoinPath
    wsTouched,   \* the paths it handed to the file system, git or Python
    \* ---- ToolAggregator and RemoteClients (package proxy) ----
    remotes,     \* ToolAggregator.remotes: instance name -> RemoteClient
    toolMapping, \* ToolAggregator.toolMapping: prefixed name -> toolSource
    clients,     \* every RemoteClient constructed so far, by identity
    aggLast,     \* the last aggregator call that returned, and its result
    hPc,         \* proxy handler invocations: position of each
    hReq,        \* proxy handler invocations: name, looked-up source, result
    \* ---- Manager (package manager) ----
    environments,     \* Manager.environments: handle -> ManagedEnvironment
    replSessions,     \* Manager.replSessions: handle -> ManagedREPL
    spawnedProcesses, \* Manager.spawnedProcesses: the handles registered
    procs,            \* every ManagedProcess started, by handle
    baseEnvironments, \* Manager.baseEnvironments: version -> base environment
    baseMu,           \* Manager.baseMu: the thread holding it
    mu,               \* Manager.mu: the thread holding it across steps
    nextHandle,       \* the next handle uuid.New() gives
    basesBuilt,       \* bases jumpboot.CreateEnvironmentMamba built, by version
    replClosed,       \* the sessions whose Close() was called
    destroyRet,       \* handle -> how the destroy calls on it have returned
    pc,               \* handler threads: position
    tl,               \* handler threads: locals
    failure,          \* the error the step just taken returned or dropped, if any
    \* ---- one ManagedProcess's captured output ----
    CaptureOutput,    \* ManagedProcess.CaptureOutput
    outputLines,      \* ManagedProcess.outputLines
    appended,         \* every line a capture goroutine has appended, in order
    gpoPc,            \* the GetProcessOutput call: "idle" | "found" | "done"
    gpoArg,           \* its arguments [id, n]
    gpoOut,           \* its result [err, lines] and what had been appended by then
    \* ---- one Discover call ----
    dPc,              \* "off" | "setup" | "select" | "read" | "done"
    services,         \* Discover's map: instance name -> *ServiceInfo
    dOut,             \* its result [err, records]
    ctxDone,          \* the caller's context has been cancelled
    deadlinePassed,   \* the read deadline (now + timeout) is in the past
    heard,            \* per instance name, the ServiceInfos parsed so far, in order
    nRecv,            \* datagrams ReadFromUDP has delivered
    readFailed,       \* ReadFromUDP has returned an error that is no timeout
    \* ---- one Announcer ----
    aInfo,            \* a.info, the field Start reads the name from
    aHost,            \* the interfaces of the host it runs on
    aServer,          \* a.server: NoServer or the mdns server it points to
    mdnsServers,      \* the mdns servers created so far
    aRet              \* the last call and whether it returned an error

pgVars == <<pgPc, pgBase, pgRel, pgOut, wsOp, wsTouched>>
aggVars == <<remotes, toolMapping, clients, aggLast, hPc, hReq>>
mgrVars == <<environments, replSessions, spawnedProcesses, procs,
             baseEnvironments, baseMu, mu, nextHandle, basesBuilt, replClosed, destroyRet, pc, tl, failure>>
outVars == <<CaptureOutput, outputLines, appended, gpoPc, gpoArg, gpoOut>>
discVars == <<dPc, services, dOut, ctxDone, deadlinePassed, heard, nRecv, readFailed>>
annVars == <<aInfo, aHost, aServer, mdnsServers, aRet>>
vars == <<pgVars, aggVars, mgrVars, outVars, discVars, annVars>>

(***************************************************************************)
(* Strings are sequences of one-character strings.                        *)
(***************************************************************************)
Sep == "/"
Dot == <<".">>
DotDot == <<".", ".">>

\* Longest candidate path the path-guard specification enumerates.
MaxRelLen == 5

PathAlphabet == {"/", ".", "a"}

\* Workspace directories are filepath.Join(RootDir, "workspace") under an
\* absolute base directory: absolute, cleaned, never the root itself.
PathBases == { <<"/", "a">>, <<"/", "a", "/", "a">> }

PathRels == UNION { [1..k -> PathAlphabet] : k \in 0..MaxRelLen }

Last(s) == s[Len(s)]
Front(s) == SubSeq(s, 1, Len(s) - 1)

HasPrefix(s, p) == Len(s) >= Len(p) /\ SubSeq(s, 1, Len(p)) = p

\* The components of a path between separators, empty ones included.
RECURSIVE SplitFrom(_, _, _)
SplitFrom(s, i, cur) ==
    IF i > Len(s) THEN <<cur>>
    ELSE IF s[i] = Sep THEN <<cur>> \o SplitFrom(s, i + 1, <<>>)
    ELSE SplitFrom(s, i + 1, Append(cur, s[i]))

SplitPath(s) == SplitFrom(s, 1, <<>>)

\* components joined with the separator
RECURSIVE JoinComps(_)
JoinComps(cs) ==
    IF Len(cs) = 0 THEN <<>>
    ELSE IF Len(cs) = 1 THEN cs[1]
    ELSE cs[1] \o <<Sep>> \o JoinComps(Tail(cs))

\* filepath.Clean's element loop: empty and "." elements are skipped, ".."
\* backtracks over the last real element, is dropped at the root of a rooted
\* path and is kept at the front of an unrooted one.
RECURSIVE CleanElems(_, _, _)
CleanElems(cs, out, rooted) ==
    IF Len(cs) = 0 THEN out
    ELSE LET c == Head(cs) IN
         IF c = <<>> \/ c = Dot THEN CleanElems(Tail(cs), out, rooted)
         ELSE IF c = DotDot THEN
              IF Len(out) > 0 /\ Last(out) # DotDot
                  THEN CleanElems(Tail(cs), Front(out), rooted)
              ELSE IF rooted THEN CleanElems(Tail(cs), out, rooted)
              ELSE CleanElems(Tail(cs), Append(out, DotDot), rooted)
         ELSE CleanElems(Tail(cs), Append(out, c), rooted)

IsAbs(p) == Len(p) > 0 /\ p[1] = Sep

\* filepath.Clean (Unix)
Clean(p) ==
    IF Len(p) = 0 THEN Dot
    ELSE LET rooted == IsAbs(p)
             out == CleanElems(SplitPath(p), <<>>, rooted)
         IN IF rooted THEN <<Sep>> \o JoinComps(out)
            ELSE IF Len(out) = 0 THEN Dot
            ELSE JoinComps(out)

\* filepath.Join of two elements: empty elements are ignored, the rest are
\* joined with the separator and cleaned; all empty gives "".
JoinPath(a, b) ==
    IF Len(a) = 0 /\ Len(b) = 0 THEN <<>>
    ELSE IF Len(a) = 0 THEN Clean(b)
    ELSE IF Len(b) = 0 THEN Clean(a)
    ELSE Clean(a \o <<Sep>> \o b)

\* A plausible slip: the parent is compared as a bare string prefix, without
\* the trailing separator.
isSubPathNoSep(parent, child) ==
    HasPrefix(Clean(child), Clean(parent))

isSubPath(parent, child) ==
    LET p0 == Clean(parent)
        c0 == Clean(child)
        p1 == IF Last(p0) # Sep THEN Append(p0, Sep) ELSE p0
    IN Len(c0) >= Len(p1) /\ SubSeq(c0, 1, Len(p1)) = p1

PathOk(p) == [ok |-> TRUE, path |-> p, err |-> "none"]
PathErr(e) == [ok |-> FALSE, path |-> <<>>, err |-> e]

safeJoinPath(base, relPath) ==
    LET rel == Clean(relPath) IN
    IF IsAbs(rel) THEN PathErr("absolute")
    ELSE LET fullPath == Clean(JoinPath(base, rel)) IN
         IF ~isSubPath(base, fullPath) THEN PathErr("traversal")
         ELSE PathOk(fullPath)

PathIdle ==
    /\ pgPc = "idle"
    /\ pgBase = <<>>
    /\ pgRel = <<>>
    /\ pgOut = PathErr("none")
    /\ wsOp = "none"
    /\ wsTouched = {}

PathInit ==
    /\ pgPc = "input"
    /\ pgBase \in PathBases
    /\ pgRel \in PathRels
    /\ pgOut = PathErr("none")
    /\ wsOp = "none"
    /\ wsTouched = {}

SafeJoinCall ==
    /\ pgPc = "input"
    /\ pgOut' = safeJoinPath(pgBase, pgRel)
    /\ pgPc' = "done"
    /\ UNCHANGED <<pgBase, pgRel, wsOp, wsTouched>>

(***************************************************************************)
(* Workspace operations: each looks the environment up under the read     *)
(* lock, releases it, and works on <WorkspaceDir>/<caller's path>.  pgBase *)
(* is the WorkspaceDir of an environment that has a workspace, pgRel the   *)
(* path argument.                                                          *)
(***************************************************************************)

\* the operations taking a caller-supplied relative path
WorkspaceOps == {"write", "read", "list", "delete", "runScript",
                 "installRequirements", "gitClone"}

\* repository URLs a caller passes to workspace_git_clone
GitSuffix == <<".", "g", "i", "t">>
RepoURLs == { <<"a", "/", "a">> \o GitSuffix, <<"a", ":", ".", ".">>, <<"a", "/">> }
DefaultRepoName == <<"r", "e", "p", "o">>

\* index of the last character of s that is in cs, 0 when there is none
LastIndexIn(s, cs) ==
    LET hits == {i \in 1..Len(s) : s[i] \in cs}
    IN IF hits = {} THEN 0 ELSE CHOOSE i \in hits : \A j \in hits : j <= i

\* extractRepoName: a trailing ".git" is cut, then everything up to the last
\* "/" or ":"; an empty name becomes "repo"
extractRepoName(repoURL) ==
    LET n == Len(repoURL)
        cut == IF n > 4 /\ SubSeq(repoURL, n - 3, n) = GitSuffix
               THEN SubSeq(repoURL, 1, n - 4) ELSE repoURL
        i == LastIndexIn(cut, {"/", ":"})
        name == SubSeq(cut, i + 1, Len(cut))
    IN IF name = <<>> THEN DefaultRepoName ELSE name

\* filepath.Dir: everything up to the last separator, cleaned
Dir(p) == Clean(SubSeq(p, 1, LastIndexIn(p, {Sep})))

\* the six operations that validate the path before anything else
GuardedTarget(ws, rel) == safeJoinPath(ws, rel)

\* the path an operation works on, or the error it returns instead:
\* ListWorkspaceFiles lists the workspace itself for an empty subpath;
\* GitCloneToWorkspace joins the directory name, or the repository's name
\* when none is given, to the workspace with filepath.Join and no check
WorkspaceTarget(op, ws, rel, url) ==
    IF op = "gitClone"
    THEN PathOk(JoinPath(ws, IF rel = <<>> THEN extractRepoName(url) ELSE rel))
    ELSE IF op = "list" /\ rel = <<>> THEN PathOk(ws)
    ELSE GuardedTarget(ws, rel)

\* what the operation then hands to the file system, git or Python:
\* WriteWorkspaceFile also creates the file's directory
Touched(op, target) ==
    IF ~target.ok THEN {}
    ELSE IF op = "write" THEN {Dir(target.path), target.path}
    ELSE {target.path}

\* one workspace operation, from the look-up to its return
WorkspaceCall(op) ==
    /\ pgPc = "input"
    /\ \E url \in RepoURLs : pgOut' = WorkspaceTarget(op, pgBase, pgRel, url)
    /\ wsOp' = op
    /\ wsTouched' = Touched(op, pgOut')
    /\ pgPc' = "acted"
    /\ UNCHANGED <<pgBase, pgRel>>

(***************************************************************************)
(* Package proxy: RemoteClient and ToolAggregator.                        *)
(* Every ToolAggregator method holds a.mu for its whole body, so each is  *)
(* one step; a proxy handler reads the mapping under the read lock and    *)
(* then calls the remote without it, so it takes several steps.           *)
(***************************************************************************)

\* RemoteClients one run may construct.
MaxClients == 2

\* A plausible slip: the announced label is used as it is.
KeepInstanceName(name) == name

\* sanitizeInstanceName: "." and " " become "-", letters are lowered, and
\* only a-z, 0-9 and "-" are kept
sanitizeInstanceName(name) ==
    LET LowerChar(c) == IF c = "A" THEN "a" ELSE IF c \in {".", " "} THEN "-" ELSE c
        SafeChar(c) == c \in {"a", "b", "-"}
    IN SelectSeq([i \in 1..Len(name) |-> LowerChar(name[i])], SafeChar)

\* first labels of the service names peers announce
AnnouncedLabels == { <<"a">>, <<"b">>, <<"a", ":">> }

\* the instance names Discover hands to AddRemote
InstanceNames == { sanitizeInstanceName(l) : l \in AnnouncedLabels }

\* the names of the server's own tools, and the names a peer may list
LocalToolNames == { <<"t">>, <<"u">> }
ToolNames == LocalToolNames \cup { <<":", "t">> }
Notes == { "", "gpu" }
Handlers == { "h1" }

NoClient == 0
ClientIds == 1..MaxClients

\* discovery.ServiceInfo, the fields the aggregator reads
ServiceInfos == [name : InstanceNames, note : Notes]

\* fmt.Sprintf("%s:%s", instanceName, tool.Name)
PrefixedName(inst, tool) == inst \o <<":">> \o tool

\* How far RemoteClient.Connect gets: the HTTP client cannot be created, it
\* cannot be started, the initialize handshake fails, the tool list cannot be
\* fetched, or all succeed.
ConnectOutcomes == {"createFail", "startFail", "initFail", "fetchFail", "ok"}

NewRemoteClient(info) ==
    [name |-> info.name, note |-> info.note,
     conn |-> "none",        \* the underlying client.Client c
     hasClient |-> FALSE,    \* r.client != nil
     tools |-> {}]

\* A plausible slip: the fetch-failure path returns without c.Close().
ConnectLeakOnFetchFail(r, outcome, peerTools) ==
    [r EXCEPT
       !.conn = CASE outcome = "createFail" -> "none"
                  [] outcome = "startFail" -> "created"
                  [] outcome = "initFail" -> "closed"
                  [] outcome = "fetchFail" -> "open"
                  [] OTHER -> "open",
       !.hasClient = outcome \in {"fetchFail", "ok"},
       !.tools = IF outcome = "ok" THEN peerTools ELSE {}]

\* RemoteClient.Connect: the client after the call
Connect(r, outcome, peerTools) ==
    [r EXCEPT
       !.conn = CASE outcome = "createFail" -> "none"
                  [] outcome = "startFail" -> "created"
                  [] outcome = "initFail" -> "closed"
                  [] outcome = "fetchFail" -> "closed"
                  [] OTHER -> "open",
       !.hasClient = outcome \in {"fetchFail", "ok"},
       !.tools = IF outcome = "ok" THEN peerTools ELSE {}]

\* RemoteClient.Close: the client after the call
RemoteClose(r) ==
    IF r.hasClient THEN [r EXCEPT !.conn = "closed", !.hasClient = FALSE]
    ELSE r

\* RemoteClient.IsConnected
IsConnected(r) == r.hasClient

Restrict(f, S) == [x \in S |-> f[x]]

\* A plausible slip: the whole mapping is cleared, as Close does.
MappingCleared(mapping, cid) == << >>

\* A plausible slip: the peer is dropped but its mapping entries are kept.
MappingKept(mapping, cid) == mapping

\* RemoveRemote's loop: the mapping without the entries whose source is cid
MappingWithout(mapping, cid) ==
    Restrict(mapping, {n \in DOMAIN mapping : mapping[n].remote # cid})

\* AddRemote's loop: the mapping with cid's tools entered under prefixed names
MappingWith(mapping, inst, cid, tools) ==
    LET new == {PrefixedName(inst, t) : t \in tools} IN
    [n \in DOMAIN mapping \cup new |->
        IF n \in new
            THEN [remote |-> cid,
                  originalName |-> CHOOSE t \in tools : PrefixedName(inst, t) = n]
            ELSE mapping[n]]

NoSource == [remote |-> NoClient, originalName |-> <<>>]

\* A RemoteClient lives while the aggregator, a proxy handler's looked-up
\* source or the caller of the last operation still references it; the
\* others are garbage, and nothing can read their fields any more.
Referenced(cl, rem, req, last) ==
    {c \in DOMAIN cl :
        \/ \E n \in DOMAIN rem : rem[n] = c
        \/ \E h \in DOMAIN req : req[h].source.remote = c \/ req[h].sentTo = c
        \/ last.cid = c}

Freed == [name |-> <<>>, note |-> "", conn |-> "freed", hasClient |-> FALSE,
          tools |-> {}]

Collect(cl, rem, req, last) ==
    [c \in DOMAIN cl |->
        IF c \in Referenced(cl, rem, req, last) THEN cl[c] ELSE Freed]

NextClient == Cardinality(DOMAIN clients) + 1

AggInit ==
    /\ remotes = << >>
    /\ toolMapping = << >>
    /\ clients = << >>
    /\ aggLast = [op |-> "none", name |-> <<>>, cid |-> NoClient,
                  outcome |-> "none", err |-> FALSE]
    /\ hPc = [h \in Handlers |-> "idle"]
    /\ hReq = [h \in Handlers |->
                  [name |-> <<>>, source |-> NoSource, result |-> "none",
                   sentTo |-> NoClient, sentName |-> <<>>]]

\* A plausible slip: the check for an existing connection is left out.
NeverConnected(name) == FALSE

\* AddRemote's check: _, exists := a.remotes[info.InstanceName]
AlreadyConnected(name) == name \in DOMAIN remotes

\* AddRemote on an instance name that is already connected
AddRemoteExisting(info) ==
    /\ AlreadyConnected(info.name)
    /\ aggLast' = [op |-> "AddRemote", name |-> info.name,
                   cid |-> remotes[info.name], outcome |-> "exists",
                   err |-> FALSE]
    /\ UNCHANGED <<remotes, toolMapping, hPc, hReq>>
    /\ clients' = Collect(clients, remotes', hReq', aggLast')

\* AddRemote on a new instance name: connect, then register and import
AddRemoteNew(info, outcome, peerTools) ==
    /\ ~AlreadyConnected(info.name)
    /\ NextClient <= MaxClients
    /\ LET cid == NextClient
           r == Connect(NewRemoteClient(info), outcome, peerTools)
       IN /\ UNCHANGED <<hPc, hReq>>
          /\ IF outcome = "ok"
                THEN /\ remotes' = [n \in DOMAIN remotes \cup {info.name} |->
                                       IF n = info.name THEN cid ELSE remotes[n]]
                     /\ toolMapping' = MappingWith(toolMapping, info.name, cid, r.tools)
                ELSE UNCHANGED <<remotes, toolMapping>>
          /\ aggLast' = [op |-> "AddRemote", name |-> info.name, cid |-> cid,
                         outcome |-> outcome, err |-> outcome # "ok"]
          /\ clients' = Collect([c \in DOMAIN clients \cup {cid} |->
                                    IF c = cid THEN r ELSE clients[c]],
                                remotes', hReq', aggLast')

\* the tool lists a peer may answer with
PeerToolLists == { {}, {<<"t">>}, {<<"t">>, <<"u">>}, {<<":", "t">>} }

AddRemote ==
    \E info \in ServiceInfos :
        \/ AddRemoteExisting(info)
        \/ \E outcome \in ConnectOutcomes, peerTools \in PeerToolLists :
               /\ (outcome # "ok" => peerTools = {})
               /\ AddRemoteNew(info, outcome, peerTools)

\* RemoveRemote; closeErr is the error of the underlying client's Close
RemoveRemote ==
    \E name \in InstanceNames, closeErr \in BOOLEAN :
        IF name \notin DOMAIN remotes
        THEN /\ ~closeErr
             /\ aggLast' = [op |-> "RemoveRemote", name |-> name, cid |-> NoClient,
                            outcome |-> "unknown", err |-> FALSE]
             /\ UNCHANGED <<remotes, toolMapping, hPc, hReq>>
             /\ clients' = Collect(clients, remotes', hReq', aggLast')
        ELSE LET cid == remotes[name] IN
             /\ toolMapping' = MappingWithout(toolMapping, cid)
             /\ remotes' = Restrict(remotes, DOMAIN remotes \ {name})
             /\ (closeErr => clients[cid].hasClient)
             /\ aggLast' = [op |-> "RemoveRemote", name |-> name, cid |-> cid,
                            outcome |-> "removed", err |-> closeErr]
             /\ UNCHANGED <<hPc, hReq>>
             /\ clients' = Collect([clients EXCEPT ![cid] = RemoteClose(@)],
                                   remotes', hReq', aggLast')

\* ToolAggregator.Close
AggClose ==
    \E closeErr \in BOOLEAN :
        LET live == {remotes[n] : n \in DOMAIN remotes} IN
        /\ (closeErr => \E c \in live : clients[c].hasClient)
        /\ remotes' = << >>
        /\ toolMapping' = << >>
        /\ aggLast' = [op |-> "Close", name |-> <<>>, cid |-> NoClient,
                       outcome |-> "closed", err |-> closeErr]
        /\ UNCHANGED <<hPc, hReq>>
        /\ clients' = Collect([c \in DOMAIN clients |->
                                  IF c \in live THEN RemoteClose(clients[c])
                                  ELSE clients[c]],
                              remotes', hReq', aggLast')

\* GetAllTools: the prefixed tools of every connected remote, each with its
\* description prefix and the name its proxy handler is bound to
GetAllTools ==
    UNION { { [name |-> PrefixedName(n, t),
               note |-> clients[remotes[n]].note,
               handler |-> PrefixedName(n, t),
               remote |-> remotes[n]] : t \in clients[remotes[n]].tools }
            : n \in DOMAIN remotes }

AllPrefixed == {PrefixedName(n, t) : n \in InstanceNames, t \in ToolNames}

\* proxy handler, first part: the mapping lookup under the read lock
ProxyLookup(h) ==
    /\ hPc[h] = "idle"
    /\ \E name \in AllPrefixed :
          IF name \in DOMAIN toolMapping
          THEN /\ hPc' = [hPc EXCEPT ![h] = "check"]
               /\ hReq' = [hReq EXCEPT ![h] =
                              [name |-> name, source |-> toolMapping[name],
                               result |-> "pending", sentTo |-> NoClient,
                               sentName |-> <<>>]]
          ELSE /\ hPc' = hPc
               /\ hReq' = [hReq EXCEPT ![h] =
                              [name |-> name, source |-> NoSource,
                               result |-> "notFound", sentTo |-> NoClient,
                               sentName |-> <<>>]]
    /\ UNCHANGED <<remotes, toolMapping, aggLast>>
    /\ clients' = Collect(clients, remotes', hReq', aggLast')

\* proxy handler, second part: source.remote.IsConnected()
ProxyCheck(h) ==
    /\ hPc[h] = "check"
    /\ IF IsConnected(clients[hReq[h].source.remote])
       THEN /\ hPc' = [hPc EXCEPT ![h] = "call"]
            /\ hReq' = hReq
       ELSE /\ hPc' = [hPc EXCEPT ![h] = "idle"]
            /\ hReq' = [hReq EXCEPT ![h].result = "disconnected",
                                    ![h].source = NoSource]
    /\ UNCHANGED <<remotes, toolMapping, aggLast>>
    /\ clients' = Collect(clients, remotes', hReq', aggLast')

\* A plausible slip: the call goes out under the prefixed name.
CallPrefixedName(req) == req.name

\* the name the proxy handler passes to CallTool
CallName(req) == req.source.originalName

\* proxy handler, third part: the type check of the request's arguments, then
\* RemoteClient.CallTool with the original name.  argsOk: the arguments are
\* absent or a JSON object.
ProxyCall(h) ==
    /\ hPc[h] = "call"
    /\ LET src == hReq[h].source IN
       \E argsOk \in BOOLEAN :
          IF ~argsOk
          THEN hReq' = [hReq EXCEPT ![h].result = "invalidArguments",
                                    ![h].source = NoSource]
          ELSE IF ~clients[src.remote].hasClient
          THEN hReq' = [hReq EXCEPT ![h].result = "remoteCallFailed",
                                    ![h].source = NoSource]
          ELSE \E remoteErr \in BOOLEAN :
                 hReq' = [hReq EXCEPT
                            ![h].result = IF remoteErr THEN "remoteCallFailed"
                                          ELSE "forwarded",
                            ![h].source = NoSource,
                            ![h].sentTo = src.remote,
                            ![h].sentName = CallName(hReq[h])]
    /\ hPc' = [hPc EXCEPT ![h] = "idle"]
    /\ UNCHANGED <<remotes, toolMapping, aggLast>>
    /\ clients' = Collect(clients, remotes', hReq', aggLast')

\* what an aggregator step leaves alone
AggFrame == UNCHANGED <<pgVars, mgrVars, outVars, discVars, annVars>>

AggNext ==
    \/ AddRemote /\ AggFrame
    \/ RemoveRemote /\ AggFrame
    \/ AggClose /\ AggFrame
    \/ \E h \in Handlers : ProxyLookup(h) /\ AggFrame
    \/ \E h \in Handlers : ProxyCheck(h) /\ AggFrame
    \/ \E h \in Handlers : ProxyCall(h) /\ AggFrame

(***************************************************************************)
(* Package manager: the Manager registry and the processes it supervises. *)
(*                                                                         *)
(* Request handlers run on the threads of Threads.  A handler that holds  *)
(* m.mu for its whole body without waiting for another goroutine is one   *)
(* step; DestroyEnvironment and Shutdown wait for processes to exit while *)
(* they hold m.mu, and CreateEnvironment, SpawnProcess and KillProcess    *)
(* take and release locks several times, so they take several steps.      *)
(***************************************************************************)

\* Handles (uuid.New) one run may issue.
MaxHandles == 2

Threads == {"t1", "t2"}
Versions == {"3.11", "3.12"}
\* exit codes of a process that ends by itself
ExitCodes == {0, 1}
\* exec.ExitError.ExitCode() of a process ended by a signal
KilledCode == -1

NoThread == "none"
NoHandle == 0
NoBase == 0
NoVersion == "none"
NotReturned == "pending"
Handles == 1..MaxHandles

NoLocals == [op |-> "none", h |-> NoHandle, id |-> NoHandle, ver |-> NoVersion,
             base |-> NoBase, todo |-> {}, cur |-> NoHandle, late |-> FALSE]

\* err: the error a handler returned in the step just taken; dropped: an
\* error it met and did not return; late: the call (a KillProcess) began
\* when its process had already ended
NoFailure == [err |-> "none", dropped |-> "none", late |-> FALSE]
Err(e) == [NoFailure EXCEPT !.err = e]

\* the handles callers have been given: those registered at some time
Issued == 1..(nextHandle - 1)

\* uuid.New(): a handle never issued before.  The handle is drawn when the
\* entity is first stored: nothing reads it before that.
NewHandle == nextHandle

\* A plausible slip: the registry lock stays taken while a base is built.
MuHeldDuringBuild == mu = NoThread /\ \A b \in Threads : pc[b] # "ce_build"

\* m.mu can be taken: no handler holds it
MuFree == mu = NoThread

\* uuid.New() never runs out; a run is cut off when it has drawn the handles
\* its record of destroy results, destroyRet, was laid out for
HandleLeft == nextHandle \in DOMAIN destroyRet

\* A plausible slip: the base-creation lock is not taken at all.
BaseMuIgnored == TRUE

\* m.baseMu.Lock() can be taken
BaseMuFree == baseMu = NoThread

\* A plausible slip: the second look-up under baseMu is left out.
BaseNeverCached(ver) == FALSE

\* the look-up m.baseEnvironments[pythonVersion]
BaseCached(ver) == baseEnvironments[ver] # NoBase

MgrInitWith(handles) ==
    /\ environments = << >>
    /\ replSessions = << >>
    /\ spawnedProcesses = {}
    /\ procs = << >>
    /\ baseEnvironments = [v \in Versions |-> NoBase]
    /\ baseMu = NoThread
    /\ mu = NoThread
    /\ nextHandle = 1
    /\ basesBuilt = [v \in Versions |-> 0]
    /\ replClosed = {}
    /\ destroyRet = [h \in handles |-> NotReturned]
    /\ pc = [t \in Threads |-> "idle"]
    /\ tl = [t \in Threads |-> NoLocals]
    /\ failure = NoFailure

MgrInit == MgrInitWith(Handles)

\* a handler returns without error: its locals are gone
Return(t) ==
    /\ pc' = [pc EXCEPT ![t] = "idle"]
    /\ tl' = [tl EXCEPT ![t] = NoLocals]
    /\ failure' = NoFailure

\* a handler returns the error f.err, or returns nil having dropped f.dropped
Fail(t, f) ==
    /\ pc' = [pc EXCEPT ![t] = "idle"]
    /\ tl' = [tl EXCEPT ![t] = NoLocals]
    /\ failure' = f

Goto(t, label, locals) ==
    /\ pc' = [pc EXCEPT ![t] = label]
    /\ tl' = [tl EXCEPT ![t] = locals]
    /\ failure' = NoFailure

Extend(f, k, v) == [x \in DOMAIN f \cup {k} |-> IF x = k THEN v ELSE f[x]]

(***************************************************************************)
(* CreateEnvironment and getOrCreateBase                                  *)
(***************************************************************************)

\* CreateEnvironment up to getOrCreateBase's first look-up under the read lock
CreateEnvironmentBegin(t, ver) ==
    /\ pc[t] = "idle"
    /\ HandleLeft
    /\ MuFree
    /\ IF BaseCached(ver)
       THEN Goto(t, "ce_venv", [NoLocals EXCEPT !.op = "CreateEnvironment",
                                  !.ver = ver, !.base = baseEnvironments[ver]])
       ELSE Goto(t, "ce_lock", [NoLocals EXCEPT !.op = "CreateEnvironment",
                                  !.ver = ver])
    /\ UNCHANGED <<environments, replSessions, spawnedProcesses, procs,
                   baseEnvironments, baseMu, mu, nextHandle, basesBuilt,
                   replClosed, destroyRet>>

\* getOrCreateBase: m.baseMu.Lock()
GetBaseLock(t) ==
    /\ pc[t] = "ce_lock"
    /\ BaseMuFree
    /\ baseMu' = t
    /\ Goto(t, "ce_check2", tl[t])
    /\ UNCHANGED <<environments, replSessions, spawnedProcesses, procs,
                   baseEnvironments, mu, nextHandle, basesBuilt, replClosed, destroyRet>>


\* getOrCreateBase: the second look-up, under baseMu
GetBaseRecheck(t) ==
    /\ pc[t] = "ce_check2"
    /\ MuFree
    /\ IF BaseCached(tl[t].ver)
       THEN /\ baseMu' = NoThread
            /\ Goto(t, "ce_venv", [tl[t] EXCEPT !.base = baseEnvironments[tl[t].ver]])
       ELSE /\ baseMu' = baseMu
            /\ Goto(t, "ce_build", tl[t])
    /\ UNCHANGED <<environments, replSessions, spawnedProcesses, procs,
                   baseEnvironments, mu, nextHandle, basesBuilt, replClosed, destroyRet>>


\* A plausible slip: the error return leaves baseMu locked.
BaseMuKeptOnError(t) == t

\* defer m.baseMu.Unlock(): whoever returns from getOrCreateBase leaves
\* baseMu free
BaseMuAfterReturn(t) == NoThread

\* getOrCreateBase: jumpboot.CreateEnvironmentMamba, the slow build; a failed
\* build returns the error and the deferred Unlock releases baseMu
GetBaseBuild(t) ==
    /\ pc[t] = "ce_build"
    /\ \E ok \in BOOLEAN :
         IF ok
         THEN /\ basesBuilt' = [basesBuilt EXCEPT ![tl[t].ver] = @ + 1]
              /\ Goto(t, "ce_store", [tl[t] EXCEPT !.base = basesBuilt'[tl[t].ver]])
              /\ baseMu' = baseMu
         ELSE /\ basesBuilt' = basesBuilt
              /\ Fail(t, Err("buildFailed"))
              /\ baseMu' = BaseMuAfterReturn(t)
    /\ UNCHANGED <<environments, replSessions, spawnedProcesses, procs,
                   baseEnvironments, mu, nextHandle, replClosed, destroyRet>>


\* getOrCreateBase: the base is stored under m.mu, and the deferred Unlock
\* releases baseMu
GetBaseStore(t) ==
    /\ pc[t] = "ce_store"
    /\ MuFree
    /\ baseEnvironments' = [baseEnvironments EXCEPT ![tl[t].ver] = tl[t].base]
    /\ baseMu' = NoThread
    /\ Goto(t, "ce_venv", tl[t])
    /\ UNCHANGED <<environments, replSessions, spawnedProcesses, procs, mu,
                   nextHandle, basesBuilt, replClosed, destroyRet>>


\* CreateEnvironment: jumpboot.CreateVenvEnvironment from the base
CreateEnvironmentVenv(t) ==
    /\ pc[t] = "ce_venv"
    /\ \E ok \in BOOLEAN :
         IF ok THEN Goto(t, "ce_register", tl[t])
         ELSE Fail(t, Err("venvFailed"))
    /\ UNCHANGED <<environments, replSessions, spawnedProcesses, procs,
                   baseEnvironments, baseMu, mu, nextHandle, basesBuilt, replClosed, destroyRet>>

\* CreateEnvironment: m.environments[id] = managed
CreateEnvironmentRegister(t) ==
    /\ pc[t] = "ce_register"
    /\ HandleLeft
    /\ MuFree
    /\ nextHandle' = nextHandle + 1
    /\ environments' = Extend(environments, NewHandle,
                              [ver |-> tl[t].ver, base |-> tl[t].base,
                               WorkspaceDir |-> FALSE])
    /\ Return(t)
    /\ UNCHANGED <<replSessions, spawnedProcesses, procs, baseEnvironments,
                   baseMu, mu, basesBuilt, replClosed,
                   destroyRet>>


\* the Python version a frozen environment names
RestoredVersion == "3.11"

\* RestoreEnvironment: m.mu is held for the whole body
RestoreEnvironment(t) ==
    /\ pc[t] = "idle"
    /\ HandleLeft
    /\ MuFree
    /\ \E ok \in BOOLEAN :
         IF ok
         THEN /\ environments' = Extend(environments, NewHandle,
                                       [ver |-> RestoredVersion, base |-> NoBase,
                                        WorkspaceDir |-> FALSE])
              /\ nextHandle' = nextHandle + 1
              /\ Return(t)
         ELSE /\ UNCHANGED <<environments, nextHandle>>
              /\ Fail(t, Err("restoreFailed"))
    /\ UNCHANGED <<replSessions, spawnedProcesses, procs, baseEnvironments,
                   baseMu, mu, basesBuilt, replClosed, destroyRet>>

\* CreateWorkspace: m.mu is held for the whole body; WorkspaceDir is set
\* (TRUE here) once os.MkdirAll has made the directory under RootDir
CreateWorkspace(t, envID) ==
    /\ pc[t] = "idle"
    /\ MuFree
    /\ IF ~(envID \in DOMAIN environments)
       THEN /\ Fail(t, Err("notFound"))
            /\ environments' = environments
       ELSE IF environments[envID].WorkspaceDir
       THEN /\ Return(t)
            /\ environments' = environments
       ELSE \E ok \in BOOLEAN :
              IF ok
              THEN /\ environments' = [environments EXCEPT ![envID].WorkspaceDir = TRUE]
                   /\ Return(t)
              ELSE /\ environments' = environments
                   /\ Fail(t, Err("mkdirFailed"))
    /\ UNCHANGED <<replSessions, spawnedProcesses, procs, baseEnvironments,
                   baseMu, mu, nextHandle, basesBuilt, replClosed, destroyRet>>

(***************************************************************************)
(* REPL sessions                                                          *)
(***************************************************************************)

\* A plausible slip: the session is created without looking the environment up.
EnvKnownUnchecked(envID) == TRUE

\* the look-up m.environments[envID]
EnvKnown(envID) == envID \in DOMAIN environments

\* A plausible slip: the session is stored before the error is looked at.
StoredBeforeCheck(ok) == TRUE

\* CreateREPL: m.replSessions[id] = managed comes after the err != nil return
StoredAfterCheck(ok) == ok

\* CreateREPL: m.mu is held for the whole body
CreateREPL(t, envID) ==
    /\ pc[t] = "idle"
    /\ HandleLeft
    /\ MuFree
    /\ IF ~EnvKnown(envID)
       THEN /\ Fail(t, Err("notFound"))
            /\ UNCHANGED <<replSessions, nextHandle>>
       ELSE \E ok \in BOOLEAN :
                 /\ IF StoredAfterCheck(ok)
                    THEN /\ replSessions' = Extend(replSessions, NewHandle,
                                                   [envID |-> envID])
                         /\ nextHandle' = nextHandle + 1
                    ELSE UNCHANGED <<replSessions, nextHandle>>
                 /\ IF ok THEN Return(t) ELSE Fail(t, Err("replFailed"))
    /\ UNCHANGED <<environments, spawnedProcesses, procs, baseEnvironments,
                   baseMu, mu, basesBuilt, replClosed, destroyRet>>

\* a destroy call on handle h returned err: nil once any such call returned
\* nil, otherwise the error of the last one
Returned(h, err) ==
    [destroyRet EXCEPT ![h] = IF @ = "nil" THEN "nil" ELSE err]

\* DestroyREPL: m.mu is held for the whole body; a failed Close returns the
\* error and leaves the session registered
DestroyREPL(t, id) ==
    /\ pc[t] = "idle"
    /\ MuFree
    /\ IF id \notin DOMAIN replSessions
       THEN /\ Fail(t, Err("notFound"))
            /\ UNCHANGED <<replSessions, replClosed, destroyRet>>
       ELSE \E closeOk \in BOOLEAN :
              /\ replClosed' = replClosed \cup {id}
              /\ IF closeOk
                 THEN /\ replSessions' = Restrict(replSessions, DOMAIN replSessions \ {id})
                      /\ Return(t)
                      /\ destroyRet' = Returned(id, "nil")
                 ELSE /\ replSessions' = replSessions
                      /\ Fail(t, Err("closeFailed"))
                      /\ destroyRet' = Returned(id, "closeFailed")
    /\ UNCHANGED <<environments, spawnedProcesses, procs, baseEnvironments,
                   baseMu, mu, nextHandle, basesBuilt>>

(***************************************************************************)
(* Spawned processes and their monitor goroutines                         *)
(***************************************************************************)

\* A plausible slip: the monitor goroutine's close is not what the waiters see.
NeverDone(p) == FALSE

\* <-proc.done does not block: the monitor goroutine has closed the channel
Done(p) == procs[p].mon = "closed"

\* the processes a handler's locals refer to
ProcRefs(locals) ==
    UNION {{locals[t].h, locals[t].id, locals[t].cur} \cup locals[t].todo :
             t \in Threads}

\* A ManagedProcess lives while the map, its monitor goroutine or a handler
\* refers to it; after that the garbage collector frees it.
Live(ps, registered, locals) ==
    Restrict(ps, {p \in DOMAIN ps :
                    \/ p \in registered
                    \/ ps[p].mon # "closed"
                    \/ p \in ProcRefs(locals)})

\* os.Process.Kill: a running process is ended by the signal; a process that
\* has been waited for gives os.ErrProcessDone
KillFails(pr) == pr.mon # "wait"

\* A plausible slip: the kill path records the exit itself.
KillSignalRecords(pr) ==
    [pr EXCEPT !.os = "exited", !.osCode = KilledCode,
               !.exited = TRUE, !.exitCode = KilledCode]

KillSignal(pr) ==
    IF pr.os = "running" /\ ~KillFails(pr)
    THEN [pr EXCEPT !.os = "exited", !.osCode = KilledCode]
    ELSE pr

\* SpawnProcess: the environment look-up under the read lock
SpawnProcessBegin(t, envID) ==
    /\ pc[t] = "idle"
    /\ HandleLeft
    /\ MuFree
    /\ IF ~EnvKnown(envID)
       THEN Fail(t, Err("notFound"))
       ELSE Goto(t, "sp_start", [NoLocals EXCEPT !.op = "SpawnProcess", !.h = envID])
    /\ UNCHANGED <<environments, replSessions, spawnedProcesses, procs,
                   baseEnvironments, baseMu, mu, nextHandle, basesBuilt, replClosed, destroyRet>>

\* SpawnProcess: cmd.Start(); on success the monitor goroutine is started
SpawnProcessStart(t) ==
    /\ pc[t] = "sp_start"
    /\ HandleLeft
    /\ \E ok \in BOOLEAN :
         IF ok
         THEN /\ procs' = Extend(procs, NewHandle,
                                 [envID |-> tl[t].h, os |-> "running", osCode |-> 0,
                                  mon |-> "wait", exited |-> FALSE, exitCode |-> 0])
              /\ nextHandle' = nextHandle + 1
              /\ Goto(t, "sp_register", [tl[t] EXCEPT !.id = NewHandle])
         ELSE /\ procs' = procs
              /\ nextHandle' = nextHandle
              /\ Fail(t, Err("startFailed"))
    /\ UNCHANGED <<environments, replSessions, spawnedProcesses,
                   baseEnvironments, baseMu, mu, basesBuilt,
                   replClosed, destroyRet>>


\* SpawnProcess: m.spawnedProcesses[id] = managed
SpawnProcessRegister(t) ==
    /\ pc[t] = "sp_register"
    /\ MuFree
    /\ spawnedProcesses' = spawnedProcesses \cup {tl[t].id}
    /\ Return(t)
    /\ UNCHANGED <<environments, replSessions, procs, baseEnvironments, baseMu,
                   mu, nextHandle, basesBuilt, replClosed, destroyRet>>


\* the child process ends by itself
ProcessExits(p) ==
    /\ p \in DOMAIN procs
    /\ procs[p].os = "running"
    /\ \E code \in ExitCodes :
         procs' = [procs EXCEPT ![p].os = "exited", ![p].osCode = code]
    /\ UNCHANGED <<environments, replSessions, spawnedProcesses,
                   baseEnvironments, baseMu, mu, nextHandle, basesBuilt, replClosed, destroyRet, pc, tl>>
    /\ failure' = NoFailure


\* monitor goroutine: cmd.Wait() returns
MonitorWait(p) ==
    /\ p \in DOMAIN procs
    /\ procs[p].mon = "wait"
    /\ procs[p].os = "exited"
    /\ procs' = [procs EXCEPT ![p].mon = "reaped"]
    /\ UNCHANGED <<environments, replSessions, spawnedProcesses,
                   baseEnvironments, baseMu, mu, nextHandle, basesBuilt, replClosed, destroyRet, pc, tl>>
    /\ failure' = NoFailure


\* A plausible slip: the exit code is not taken from cmd.Wait's error.
ExitCodeZero(pr) == 0

\* monitor goroutine: 0 when cmd.Wait returned nil, else ExitError.ExitCode()
ExitCodeOf(pr) == pr.osCode

\* A plausible slip: the monitor goroutine records the exit under m.mu.
OutputMuBehindMu(p) == mu = NoThread

\* managed.outputMu.Lock() can be taken: every critical section of outputMu
\* is a few field reads or writes with no call that waits, one step here
OutputMuFree(p) == TRUE

\* monitor goroutine: exited and exitCode are set under outputMu
MonitorRecord(p) ==
    /\ p \in DOMAIN procs
    /\ procs[p].mon = "reaped"
    /\ OutputMuFree(p)
    /\ procs' = [procs EXCEPT ![p].mon = "recorded", ![p].exited = TRUE,
                              ![p].exitCode = ExitCodeOf(procs[p])]
    /\ UNCHANGED <<environments, replSessions, spawnedProcesses,
                   baseEnvironments, baseMu, mu, nextHandle, basesBuilt, replClosed, destroyRet, pc, tl>>
    /\ failure' = NoFailure


\* monitor goroutine: close(managed.done)
MonitorClose(p) ==
    /\ p \in DOMAIN procs
    /\ procs[p].mon = "recorded"
    /\ procs' = Live([procs EXCEPT ![p].mon = "closed"], spawnedProcesses, tl)
    /\ UNCHANGED <<environments, replSessions, spawnedProcesses,
                   baseEnvironments, baseMu, mu, nextHandle, basesBuilt, replClosed, destroyRet, pc, tl>>
    /\ failure' = NoFailure


\* KillProcess: the look-up under m.mu
KillProcessBegin(t, id) ==
    /\ pc[t] = "idle"
    /\ MuFree
    /\ IF id \notin spawnedProcesses
       THEN Fail(t, Err("notFound"))
       ELSE Goto(t, "kp_read", [NoLocals EXCEPT !.op = "KillProcess", !.h = id,
                                  !.late = procs[id].os = "exited"])
    /\ UNCHANGED <<environments, replSessions, spawnedProcesses, procs,
                   baseEnvironments, baseMu, mu, nextHandle, basesBuilt, replClosed, destroyRet>>

\* KillProcess: the exited flag is read under outputMu
KillProcessRead(t) ==
    /\ pc[t] = "kp_read"
    /\ IF procs[tl[t].h].exited
       THEN Goto(t, "kp_delete", tl[t])
       ELSE Goto(t, "kp_kill", tl[t])
    /\ UNCHANGED <<environments, replSessions, spawnedProcesses, procs,
                   baseEnvironments, baseMu, mu, nextHandle, basesBuilt, replClosed, destroyRet>>

\* KillProcess: proc.Cmd.Process.Kill(); an error is returned to the caller
KillProcessKill(t) ==
    /\ pc[t] = "kp_kill"
    /\ LET p == tl[t].h
       IN IF KillFails(procs[p])
          THEN /\ Fail(t, [Err("killFailed") EXCEPT !.late = tl[t].late])
               /\ destroyRet' = Returned(p, "killFailed")
               /\ procs' = Live(procs, spawnedProcesses, tl')
          ELSE /\ Goto(t, "kp_wait", tl[t])
               /\ destroyRet' = destroyRet
               /\ procs' = [procs EXCEPT ![p] = KillSignal(@)]
    /\ UNCHANGED <<environments, replSessions, spawnedProcesses,
                   baseEnvironments, baseMu, mu, nextHandle, basesBuilt, replClosed>>


\* KillProcess: <-proc.done
KillProcessWait(t) ==
    /\ pc[t] = "kp_wait"
    /\ Done(tl[t].h)
    /\ Goto(t, "kp_delete", tl[t])
    /\ UNCHANGED <<environments, replSessions, spawnedProcesses, procs,
                   baseEnvironments, baseMu, mu, nextHandle, basesBuilt, replClosed, destroyRet>>

\* A plausible slip: the entry is left in the map.
DeleteSkipped(registered, id) == registered

\* delete(m.spawnedProcesses, processID)
Deleted(registered, id) == registered \ {id}

\* KillProcess: the delete under m.mu, then the nil return
KillProcessDelete(t) ==
    /\ pc[t] = "kp_delete"
    /\ MuFree
    /\ spawnedProcesses' = Deleted(spawnedProcesses, tl[t].h)
    /\ destroyRet' = Returned(tl[t].h, "nil")
    /\ Return(t)
    /\ procs' = Live(procs, spawnedProcesses', tl')
    /\ UNCHANGED <<environments, replSessions, baseEnvironments, baseMu,
                   mu, nextHandle, basesBuilt, replClosed>>


(***************************************************************************)
(* DestroyEnvironment and Shutdown: both hold m.mu from the first line to *)
(* the return, the waits for processes included.                          *)
(***************************************************************************)

ProcsOf(envID) == {p \in spawnedProcesses : procs[p].envID = envID}
SessionsOf(envID) == {r \in DOMAIN replSessions : replSessions[r].envID = envID}

\* A plausible slip: the sessions of the environment are left registered.
SessionsKept(envID) == replSessions

\* A plausible slip: the session loop drops every session.
SessionsCleared(envID) == << >>

\* DestroyEnvironment's session loop: the sessions left registered
SessionsWithout(envID) ==
    Restrict(replSessions, DOMAIN replSessions \ SessionsOf(envID))

\* DestroyEnvironment: m.mu.Lock() and the look-up
DestroyEnvironmentBegin(t, id) ==
    /\ pc[t] = "idle"
    /\ MuFree
    /\ IF id \notin DOMAIN environments
       THEN /\ Fail(t, Err("notFound"))
            /\ mu' = mu
       ELSE /\ Goto(t, "kl_next", [NoLocals EXCEPT !.op = "DestroyEnvironment",
                                     !.h = id, !.todo = ProcsOf(id)])
            /\ mu' = t
    /\ UNCHANGED <<environments, replSessions, spawnedProcesses, procs,
                   baseEnvironments, baseMu, nextHandle, basesBuilt, replClosed, destroyRet>>

\* Shutdown: m.mu.Lock()
ShutdownBegin(t) ==
    /\ pc[t] = "idle"
    /\ MuFree
    /\ mu' = t
    /\ Goto(t, "kl_next", [NoLocals EXCEPT !.op = "Shutdown",
                             !.todo = spawnedProcesses])
    /\ UNCHANGED <<environments, replSessions, spawnedProcesses, procs,
                   baseEnvironments, baseMu, nextHandle, basesBuilt, replClosed, destroyRet>>

\* the process loop of both: the next process, in the map's iteration order;
\* one that has not exited is killed (Kill's error is dropped) and awaited,
\* and DestroyEnvironment deletes each entry as it goes
KillLoopNext(t) ==
    /\ pc[t] = "kl_next"
    /\ \E p \in tl[t].todo :
         IF procs[p].exited
         THEN /\ Goto(t, "kl_next", [tl[t] EXCEPT !.todo = @ \ {p}])
              /\ spawnedProcesses' =
                    IF tl[t].op = "DestroyEnvironment"
                    THEN spawnedProcesses \ {p} ELSE spawnedProcesses
              /\ procs' = Live(procs, spawnedProcesses', tl')
         ELSE /\ Goto(t, "kl_wait", [tl[t] EXCEPT !.cur = p])
              /\ spawnedProcesses' = spawnedProcesses
              /\ procs' = [procs EXCEPT ![p] = KillSignal(@)]
    /\ UNCHANGED <<environments, replSessions, baseEnvironments, baseMu, mu,
                   nextHandle, basesBuilt, replClosed, destroyRet>>


\* the process loop of both: <-proc.done
KillLoopWait(t) ==
    /\ pc[t] = "kl_wait"
    /\ Done(tl[t].cur)
    /\ Goto(t, "kl_next", [tl[t] EXCEPT !.todo = @ \ {tl[t].cur}, !.cur = NoHandle])
    /\ spawnedProcesses' =
          IF tl[t].op = "DestroyEnvironment"
          THEN spawnedProcesses \ {tl[t].cur} ELSE spawnedProcesses
    /\ procs' = Live(procs, spawnedProcesses', tl')
    /\ UNCHANGED <<environments, replSessions, baseEnvironments, baseMu,
                   mu, nextHandle, basesBuilt, replClosed,
                   destroyRet>>


\* os.RemoveAll(env.WorkspaceDir): its error is dropped
WorkspaceRemoval(wsOk, f) ==
    IF wsOk THEN f ELSE [f EXCEPT !.dropped = "workspaceRemoveFailed"]

\* DestroyEnvironment after the process loop: the sessions are closed and
\* deleted, the directories removed, the environment deleted; the result of
\* removing the workspace directory is not looked at, and a failed removal
\* of the root directory returns before the delete
DestroyEnvironmentFinish(t) ==
    /\ pc[t] = "kl_next"
    /\ tl[t].op = "DestroyEnvironment"
    /\ tl[t].todo = {}
    /\ LET id == tl[t].h IN
       /\ replClosed' = replClosed \cup SessionsOf(id)
       /\ replSessions' = SessionsWithout(id)
       /\ \E wsOk \in (IF environments[id].WorkspaceDir THEN BOOLEAN ELSE {TRUE}),
             rmOk \in BOOLEAN :
            IF rmOk
            THEN /\ environments' = Restrict(environments, DOMAIN environments \ {id})
                 /\ destroyRet' = Returned(id, "nil")
                 /\ Fail(t, WorkspaceRemoval(wsOk, NoFailure))
            ELSE /\ environments' = environments
                 /\ destroyRet' = Returned(id, "removeFailed")
                 /\ Fail(t, WorkspaceRemoval(wsOk, Err("removeFailed")))
    /\ mu' = NoThread
    /\ UNCHANGED <<spawnedProcesses, procs, baseEnvironments, baseMu, nextHandle,
                   basesBuilt>>


\* Shutdown after the process loop: both maps are replaced by empty ones and
\* every session is closed
ShutdownFinish(t) ==
    /\ pc[t] = "kl_next"
    /\ tl[t].op = "Shutdown"
    /\ tl[t].todo = {}
    /\ spawnedProcesses' = {}
    /\ replClosed' = replClosed \cup DOMAIN replSessions
    /\ replSessions' = << >>
    /\ mu' = NoThread
    /\ Return(t)
    /\ procs' = Live(procs, spawnedProcesses', tl')
    /\ UNCHANGED <<environments, baseEnvironments, baseMu, nextHandle,
                   basesBuilt, destroyRet>>


(***************************************************************************)
(* Look-ups: each reads the maps under the read lock, and a process's     *)
(* fields under its outputMu.                                             *)
(***************************************************************************)
GetEnvironment(id) ==
    IF id \in DOMAIN environments THEN [err |-> "none", env |-> environments[id]]
    ELSE [err |-> "notFound"]

GetREPL(id) ==
    IF id \in DOMAIN replSessions THEN [err |-> "none", repl |-> replSessions[id]]
    ELSE [err |-> "notFound"]

\* the ProcessInfo GetProcessInfo and ListProcesses build from a process
ProcessInfoOf(p) ==
    [id |-> p, envID |-> procs[p].envID, running |-> ~procs[p].exited,
     exitCode |-> procs[p].exitCode]

GetProcessInfo(id) ==
    IF id \in spawnedProcesses THEN [err |-> "none", info |-> ProcessInfoOf(id)]
    ELSE [err |-> "notFound"]

ListEnvironments == DOMAIN environments
ListREPLs == {[id |-> r, envID |-> replSessions[r].envID] : r \in DOMAIN replSessions}
ListProcesses == {ProcessInfoOf(p) : p \in spawnedProcesses}

\* GetProcessInfo, the handler: the look-up under m.mu.RLock(), which waits
\* while a writer holds m.mu, then the read under the process's outputMu,
\* which no goroutine holds across a step
GetProcessInfoCall(t, id) ==
    /\ pc[t] = "idle"
    /\ MuFree
    /\ IF GetProcessInfo(id).err = "notFound"
       THEN Fail(t, Err("notFound"))
       ELSE Return(t)
    /\ UNCHANGED <<environments, replSessions, spawnedProcesses, procs,
                   baseEnvironments, baseMu, mu, nextHandle, basesBuilt,
                   replClosed, destroyRet>>

\* what a Manager step leaves alone
MgrFrame == UNCHANGED <<pgVars, aggVars, outVars, discVars, annVars>>

Next ==
    \/ \E t \in Threads, v \in Versions : CreateEnvironmentBegin(t, v) /\ MgrFrame
    \/ \E t \in Threads : GetBaseLock(t) /\ MgrFrame
    \/ \E t \in Threads : GetBaseRecheck(t) /\ MgrFrame
    \/ \E t \in Threads : GetBaseBuild(t) /\ MgrFrame
    \/ \E t \in Threads : GetBaseStore(t) /\ MgrFrame
    \/ \E t \in Threads : CreateEnvironmentVenv(t) /\ MgrFrame
    \/ \E t \in Threads : CreateEnvironmentRegister(t) /\ MgrFrame
    \/ \E t \in Threads : RestoreEnvironment(t) /\ MgrFrame
    \/ \E t \in Threads, h \in Issued : CreateWorkspace(t, h) /\ MgrFrame
    \/ \E t \in Threads, h \in Issued : CreateREPL(t, h) /\ MgrFrame
    \/ \E t \in Threads, h \in Issued : DestroyREPL(t, h) /\ MgrFrame
    \/ \E t \in Threads, h \in Issued : SpawnProcessBegin(t, h) /\ MgrFrame
    \/ \E t \in Threads : SpawnProcessStart(t) /\ MgrFrame
    \/ \E t \in Threads : SpawnProcessRegister(t) /\ MgrFrame
    \/ \E p \in Handles : ProcessExits(p) /\ MgrFrame
    \/ \E p \in Handles : MonitorWait(p) /\ MgrFrame
    \/ \E p \in Handles : MonitorRecord(p) /\ MgrFrame
    \/ \E p \in Handles : MonitorClose(p) /\ MgrFrame
    \/ \E t \in Threads, h \in Issued : KillProcessBegin(t, h) /\ MgrFrame
    \/ \E t \in Threads : KillProcessRead(t) /\ MgrFrame
    \/ \E t \in Threads : KillProcessKill(t) /\ MgrFrame
    \/ \E t \in Threads : KillProcessWait(t) /\ MgrFrame
    \/ \E t \in Threads : KillProcessDelete(t) /\ MgrFrame
    \/ \E t \in Threads, h \in Issued : DestroyEnvironmentBegin(t, h) /\ MgrFrame
    \/ \E t \in Threads : ShutdownBegin(t) /\ MgrFrame
    \/ \E t \in Threads : KillLoopNext(t) /\ MgrFrame
    \/ \E t \in Threads : KillLoopWait(t) /\ MgrFrame
    \/ \E t \in Threads : DestroyEnvironmentFinish(t) /\ MgrFrame
    \/ \E t \in Threads : ShutdownFinish(t) /\ MgrFrame
    \/ \E t \in Threads, h \in Issued : GetProcessInfoCall(t, h) /\ MgrFrame

(***************************************************************************)
(* Captured output of one spawned process.  SpawnProcess starts two       *)
(* captureOutput goroutines (stdout, stderr) when capture is enabled;     *)
(* each append, with its truncation, is one region under outputMu.        *)
(* GetProcessOutput looks the handle up under m.mu, then reads under the  *)
(* process's outputMu.                                                    *)
(***************************************************************************)

\* ManagedProcess.maxLines: 1000 in the code, scaled down here.
maxLines == 2

\* Lines the capture goroutines append in one run.
MaxAppended == 4

\* Largest tailLines argument tried.
MaxTail == 3

Streams == {"stdout", "stderr"}
LineTexts == {"x", "y"}

\* the handle under which the process is registered, and one never issued
TheProcess == 1
UnknownProcess == 2

\* A plausible slip: the oldest lines are kept instead of the newest.
KeepFirst(lines) ==
    IF Len(lines) > maxLines THEN SubSeq(lines, 1, maxLines) ELSE lines

\* captureOutput: p.outputLines[len(p.outputLines)-p.maxLines:]
KeepLast(lines) ==
    IF Len(lines) > maxLines
    THEN SubSeq(lines, Len(lines) - maxLines + 1, Len(lines))
    ELSE lines

\* A plausible slip: the first tailLines lines are returned.
HeadLines(lines, n) ==
    IF n <= 0 \/ n >= Len(lines) THEN lines ELSE SubSeq(lines, 1, n)

\* GetProcessOutput: the copy it returns
TailLines(lines, n) ==
    IF n <= 0 \/ n >= Len(lines) THEN lines
    ELSE SubSeq(lines, Len(lines) - n + 1, Len(lines))

NoOutput == [err |-> "none", lines |-> <<>>, at |-> 0]

\* no process of this part exists
OutIdle ==
    /\ CaptureOutput = FALSE
    /\ outputLines = <<>>
    /\ appended = <<>>
    /\ gpoPc = "off"
    /\ gpoArg = [id |-> 0, n |-> 0]
    /\ gpoOut = NoOutput

\* a process has been spawned and registered, with or without capture
OutInit ==
    /\ CaptureOutput \in BOOLEAN
    /\ outputLines = <<>>
    /\ appended = <<>>
    /\ gpoPc = "idle"
    /\ gpoArg = [id |-> 0, n |-> 0]
    /\ gpoOut = NoOutput

\* captureOutput: one scanned line is appended and the buffer truncated,
\* under outputMu
captureOutput(stream, line) ==
    /\ CaptureOutput
    /\ Len(appended) < MaxAppended
    /\ outputLines' = KeepLast(Append(outputLines, line))
    /\ appended' = Append(appended, line)
    /\ UNCHANGED <<CaptureOutput, gpoPc, gpoArg, gpoOut>>

\* GetProcessOutput: the look-up under m.mu
GetProcessOutputLookup(id, n) ==
    /\ gpoPc \in {"idle", "done"}
    /\ gpoArg' = [id |-> id, n |-> n]
    /\ IF id # TheProcess
       THEN /\ gpoPc' = "done"
            /\ gpoOut' = [NoOutput EXCEPT !.err = "notFound", !.at = Len(appended)]
       ELSE /\ gpoPc' = "found"
            /\ gpoOut' = NoOutput
    /\ UNCHANGED <<CaptureOutput, outputLines, appended>>

\* GetProcessOutput: the CaptureOutput check, then the copy under outputMu
GetProcessOutputRead ==
    /\ gpoPc = "found"
    /\ gpoPc' = "done"
    /\ gpoOut' = IF ~CaptureOutput
                 THEN [NoOutput EXCEPT !.err = "captureNotEnabled",
                                       !.at = Len(appended)]
                 ELSE [err |-> "none",
                       lines |-> TailLines(outputLines, gpoArg.n),
                       at |-> Len(appended)]
    /\ UNCHANGED <<CaptureOutput, outputLines, appended, gpoArg>>

OutFrame == UNCHANGED <<pgVars, aggVars, mgrVars, discVars, annVars>>

OutNext ==
    \/ \E g \in Streams, l \in LineTexts : captureOutput(g, l) /\ OutFrame
    \/ \E id \in {TheProcess, UnknownProcess}, n \in (-1)..MaxTail :
          GetProcessOutputLookup(id, n) /\ OutFrame
    \/ GetProcessOutputRead /\ OutFrame

(***************************************************************************)
(* Package discovery: one Discover call.  Names are sequences of          *)
(* characters.  A datagram either cannot be unpacked or is a DNS message  *)
(* with at most one PTR of the service type, then at most one SRV, and    *)
(* some TXT strings; src is the address it came from.                     *)
(***************************************************************************)

\* Datagrams delivered in one window.
MaxPackets == 3

\* first labels of the names PTR and SRV records carry
RawLabels == {<<"A">>, <<"a", "!">>, <<"b">>, <<"!">>}
SrcHosts == {"10.0.0.1", "10.0.0.2"}
SrvPorts == {8080, 8081}
NoPort == 0
NoRecord == <<>>
TxtStrings == {<<>>, <<[key |-> "note", val |-> "X"]>>, <<[key |-> "junk", val |-> ""]>>}

Packets ==
    {[bytes |-> "garbage"]} \cup
    [bytes : {"dns"},
     ptr : RawLabels \cup {NoRecord},
     srv : ({<<"A">>, <<"b">>} \X SrvPorts) \cup {NoRecord},
     txt : TxtStrings,
     src : SrcHosts]

\* extractInstanceName of a full name whose first label is label
extractInstanceName(label) == sanitizeInstanceName(label)

\* parseResponse: the instance name the records give.  A PTR of the service
\* type always sets it; an SRV sets it only while it is empty.
ParsedName(pkt) ==
    LET fromPtr == IF pkt.ptr # NoRecord THEN extractInstanceName(pkt.ptr) ELSE <<>>
    IN IF fromPtr = <<>> /\ pkt.srv # NoRecord
       THEN extractInstanceName(pkt.srv[1])
       ELSE fromPtr

\* parseResponse: the note the TXT strings give (the last note= wins)
RECURSIVE ParsedNote(_)
ParsedNote(txt) ==
    IF txt = <<>> THEN ""
    ELSE IF txt[Len(txt)].key = "note" THEN txt[Len(txt)].val
    ELSE ParsedNote(SubSeq(txt, 1, Len(txt) - 1))

NoInfo == [InstanceName |-> <<>>, Host |-> "", Port |-> NoPort, Note |-> ""]

\* resp.Unpack and parseResponse: NoInfo stands for the nil they give for a
\* datagram that is no DNS message or names no instance
parseResponse(pkt) ==
    IF pkt.bytes = "garbage" THEN NoInfo
    ELSE IF ParsedName(pkt) = <<>> THEN NoInfo
    ELSE [InstanceName |-> ParsedName(pkt),
          Host |-> pkt.src,
          Port |-> IF pkt.srv # NoRecord THEN pkt.srv[2] ELSE NoPort,
          Note |-> ParsedNote(pkt.txt)]

\* A plausible slip: the later response replaces the earlier one.
MergeLatestWins(existing, info) == info

\* A plausible slip: a duplicate changes nothing at all.
MergeKeepsExisting(existing, info) == existing

\* Discover's merge of a duplicate: only an empty note is filled in
Merge(existing, info) ==
    IF existing.Note = "" /\ info.Note # ""
    THEN [existing EXCEPT !.Note = info.Note]
    ELSE existing

\* A plausible slip: every collected record is returned.
mapToSliceUnfiltered(m) == {m[n] : n \in DOMAIN m}

\* mapToSlice
mapToSlice(m) == {m[n] : n \in {k \in DOMAIN m : m[k].Port > 0 /\ m[k].Host # ""}}

NoResult == [err |-> "pending", records |-> {}]

\* no Discover call is made
DiscIdle ==
    /\ dPc = "off"
    /\ services = << >>
    /\ dOut = NoResult
    /\ ctxDone = FALSE
    /\ deadlinePassed = FALSE
    /\ heard = << >>
    /\ nRecv = 0
    /\ readFailed = FALSE

\* Discover has been called; the context may be cancelled already
DiscInit ==
    /\ dPc = "setup"
    /\ services = << >>
    /\ dOut = NoResult
    /\ ctxDone \in BOOLEAN
    /\ deadlinePassed = FALSE
    /\ heard = << >>
    /\ nRecv = 0
    /\ readFailed = FALSE

\* Discover up to SetReadDeadline: an error of ResolveUDPAddr, ListenUDP,
\* Pack or WriteToUDP is returned
DiscoverSetup ==
    /\ dPc = "setup"
    /\ \E ok \in BOOLEAN :
         IF ok
         THEN /\ dPc' = "select"
              /\ dOut' = dOut
         ELSE /\ dPc' = "done"
              /\ dOut' = [err |-> "setupFailed", records |-> {}]
    /\ UNCHANGED <<services, ctxDone, deadlinePassed, heard, nRecv, readFailed>>

\* the select at the head of the loop
DiscoverSelect ==
    /\ dPc = "select"
    /\ IF ctxDone
       THEN /\ dPc' = "done"
            /\ dOut' = [err |-> "none", records |-> mapToSlice(services)]
       ELSE /\ dPc' = "read"
            /\ dOut' = dOut
    /\ UNCHANGED <<services, ctxDone, deadlinePassed, heard, nRecv, readFailed>>

\* ReadFromUDP delivers a datagram before the deadline
DiscoverReadPacket(pkt) ==
    /\ dPc = "read"
    /\ ~deadlinePassed
    /\ nRecv < MaxPackets
    /\ nRecv' = nRecv + 1
    /\ dPc' = "select"
    /\ LET info == parseResponse(pkt)
           n == info.InstanceName
       IN IF info = NoInfo
          THEN UNCHANGED <<services, heard>>
          ELSE /\ services' =
                     IF n \in DOMAIN services
                     THEN [services EXCEPT ![n] = Merge(@, info)]
                     ELSE Extend(services, n, info)
               /\ heard' =
                     IF n \in DOMAIN heard
                     THEN [heard EXCEPT ![n] = Append(@, info)]
                     ELSE Extend(heard, n, <<info>>)
    /\ UNCHANGED <<dOut, ctxDone, deadlinePassed, readFailed>>

\* ReadFromUDP returns an error that is no timeout: continue
DiscoverReadError ==
    /\ dPc = "read"
    /\ ~deadlinePassed
    /\ readFailed' = TRUE
    /\ dPc' = "select"
    /\ UNCHANGED <<services, dOut, ctxDone, deadlinePassed, heard, nRecv>>

\* ReadFromUDP returns the timeout error once the deadline has passed: the
\* loop is left and the collected records are returned
DiscoverReadTimeout ==
    /\ dPc = "read"
    /\ deadlinePassed
    /\ dPc' = "done"
    /\ dOut' = [err |-> "none", records |-> mapToSlice(services)]
    /\ UNCHANGED <<services, ctxDone, deadlinePassed, heard, nRecv, readFailed>>

\* the caller cancels the context
CancelContext ==
    /\ dPc \in {"setup", "select", "read"}
    /\ ~ctxDone
    /\ ctxDone' = TRUE
    /\ UNCHANGED <<dPc, services, dOut, deadlinePassed, heard, nRecv, readFailed>>

\* time passes the deadline set by SetReadDeadline
DeadlinePasses ==
    /\ dPc \in {"select", "read"}
    /\ ~deadlinePassed
    /\ deadlinePassed' = TRUE
    /\ UNCHANGED <<dPc, services, dOut, ctxDone, heard, nRecv, readFailed>>

DiscFrame == UNCHANGED <<pgVars, aggVars, mgrVars, outVars, annVars>>

DiscNext ==
    \/ DiscoverSetup /\ DiscFrame
    \/ DiscoverSelect /\ DiscFrame
    \/ \E pkt \in Packets : DiscoverReadPacket(pkt) /\ DiscFrame
    \/ DiscoverReadError /\ DiscFrame
    \/ DiscoverReadTimeout /\ DiscFrame
    \/ CancelContext /\ DiscFrame
    \/ DeadlinePasses /\ DiscFrame

(***************************************************************************)
(* Package discovery: the Announcer.  An IP address is its family and its *)
(* first two bytes; an interface is its name, flags and addresses.        *)
(***************************************************************************)

\* mdns servers one announcer may create.
MaxServers == 2

NoServer == 0

IPs ==
    { [v4 |-> TRUE, b0 |-> 127, b1 |-> 0],     \* 127.0.0.1
      [v4 |-> TRUE, b0 |-> 169, b1 |-> 254],   \* link-local
      [v4 |-> TRUE, b0 |-> 100, b1 |-> 64],    \* CGNAT
      [v4 |-> TRUE, b0 |-> 172, b1 |-> 17],    \* Docker's default bridge
      [v4 |-> TRUE, b0 |-> 192, b1 |-> 168],
      [v4 |-> FALSE, b0 |-> 254, b1 |-> 128] } \* fe80::

Localhost == [v4 |-> TRUE, b0 |-> 127, b1 |-> 0]

\* the interfaces net.Interfaces may report, with what iface.Addrs gives
Interfaces ==
    { [Name |-> <<"l", "o">>, up |-> TRUE, loopback |-> TRUE,
       addrs |-> {Localhost}],
      [Name |-> <<"e", "t", "h", "0">>, up |-> TRUE, loopback |-> FALSE,
       addrs |-> {[v4 |-> TRUE, b0 |-> 192, b1 |-> 168],
                  [v4 |-> TRUE, b0 |-> 169, b1 |-> 254],
                  [v4 |-> FALSE, b0 |-> 254, b1 |-> 128]}],
      [Name |-> <<"d", "o", "c", "k", "e", "r", "0">>, up |-> TRUE,
       loopback |-> FALSE, addrs |-> {[v4 |-> TRUE, b0 |-> 172, b1 |-> 17]}],
      [Name |-> <<"e", "n", "1">>, up |-> TRUE, loopback |-> FALSE,
       addrs |-> {[v4 |-> TRUE, b0 |-> 100, b1 |-> 64],
                  [v4 |-> TRUE, b0 |-> 172, b1 |-> 17]}],
      [Name |-> <<"e", "t", "h", "1">>, up |-> FALSE, loopback |-> FALSE,
       addrs |-> {[v4 |-> TRUE, b0 |-> 192, b1 |-> 168]}] }

\* isPhysicalInterface: the name starts with one of the whitelisted prefixes
\* (the names here are in lower case already)
isPhysicalInterface(name) ==
    \E prefix \in { <<"e", "t", "h">>, <<"e", "n">>, <<"w", "l", "a", "n">>,
                    <<"e", "m">>, <<"r", "e">> } : HasPrefix(name, prefix)

\* A plausible slip: every IPv4 address counts as routable.
isAnyIPv4(ip) == ip.v4

\* isRoutableIP
isRoutableIP(ip) ==
    /\ ip.v4
    /\ ip.b0 # 127
    /\ ~(ip.b0 = 169 /\ ip.b1 = 254)
    /\ ~(ip.b0 = 100 /\ ip.b1 >= 64 /\ ip.b1 <= 127)
    /\ ~(ip.b0 = 172 /\ ip.b1 >= 17 /\ ip.b1 <= 31)

\* getLocalIPs on a host with the interfaces host
getLocalIPs(host) ==
    LET ips == UNION { {ip \in iface.addrs : ip.v4 /\ isRoutableIP(ip)} :
                       iface \in {i \in host : /\ ~i.loopback
                                               /\ i.up
                                               /\ isPhysicalInterface(i.Name)} }
    IN IF ips = {} THEN {Localhost} ELSE ips

\* the -instance-name flag as given, and the host names os.Hostname may give
FlagNames == { <<"a">>, <<"A", " ", "b">> }
HostNames == { <<"A", ".", "b">>, <<"!">> }

\* GetDefaultInstanceName; <<"b", "-", "a">> stands for "jumpboot-mcp"
GetDefaultInstanceName(hostname, ok) ==
    IF ok THEN sanitizeInstanceName(hostname) ELSE <<"b", "-", "a">>

\* the instance names main hands to NewAnnouncer
AnnouncerNames ==
    FlagNames \cup {GetDefaultInstanceName(h, ok) : h \in HostNames, ok \in BOOLEAN}

AnnIdle ==
    /\ aInfo = [InstanceName |-> <<>>]
    /\ aHost = {}
    /\ aServer = NoServer
    /\ mdnsServers = << >>
    /\ aRet = [op |-> "none", err |-> FALSE]

\* NewAnnouncer(info) on some host
AnnInit ==
    /\ aInfo \in [InstanceName : AnnouncerNames]
    /\ aHost \in SUBSET Interfaces
    /\ aServer = NoServer
    /\ mdnsServers = << >>
    /\ aRet = [op |-> "none", err |-> FALSE]

\* Announcer.Start; outcome is how far it gets (mdns.NewMDNSService refuses
\* an empty instance name)
AnnouncerStart ==
    /\ Len(mdnsServers) < MaxServers
    /\ \E outcome \in {"interfacesFail", "serviceFail", "serverFail", "ok"} :
         /\ (aInfo.InstanceName = <<>> => outcome # "ok")
         /\ IF outcome = "ok"
            THEN /\ mdnsServers' = Append(mdnsServers,
                                      [running |-> TRUE,
                                       Instance |-> aInfo.InstanceName,
                                       IPs |-> getLocalIPs(aHost)])
                 /\ aServer' = Len(mdnsServers) + 1
                 /\ aRet' = [op |-> "Start", err |-> FALSE]
            ELSE /\ UNCHANGED <<mdnsServers, aServer>>
                 /\ aRet' = [op |-> "Start", err |-> TRUE]
    /\ UNCHANGED <<aInfo, aHost>>

\* Announcer.Stop; mdns.Server.Shutdown does nothing on a server that is
\* shut down already
AnnouncerStop ==
    /\ IF aServer # NoServer
       THEN /\ mdnsServers' = [mdnsServers EXCEPT ![aServer].running = FALSE]
            /\ \E err \in BOOLEAN :
                 /\ (err => mdnsServers[aServer].running)
                 /\ aRet' = [op |-> "Stop", err |-> err]
       ELSE /\ mdnsServers' = mdnsServers
            /\ aRet' = [op |-> "Stop", err |-> FALSE]
    /\ UNCHANGED <<aInfo, aHost, aServer>>

AnnFrame == UNCHANGED <<pgVars, aggVars, mgrVars, outVars, discVars>>

AnnNext ==
    \/ AnnouncerStart /\ AnnFrame
    \/ AnnouncerStop /\ AnnFrame

Init == MgrInit /\ PathIdle /\ AggInit /\ OutIdle /\ DiscIdle /\ AnnIdle

Spec == Init /\ [][Next]_vars

(***************************************************************************)
(* Scheduling.  Every goroutine that can take a step is scheduled: the    *)
(* monitor goroutines, and the handlers between their first line and      *)
(* their return.  A step that takes m.mu is strongly fair: sync.Mutex and *)
(* sync.RWMutex hand the lock to a goroutine that has waited long enough  *)
(* (starvation mode, writer preference).  Whether a client calls a        *)
(* handler, and whether a child ends by itself, is not assumed.           *)
(***************************************************************************)
MonitorFairness ==
    \A p \in Handles :
        /\ WF_vars(MonitorWait(p) /\ MgrFrame)
        /\ WF_vars(MonitorRecord(p) /\ MgrFrame)
        /\ WF_vars(MonitorClose(p) /\ MgrFrame)

KillFairness ==
    \A t \in Threads :
        /\ WF_vars(KillProcessRead(t) /\ MgrFrame)
        /\ WF_vars(KillProcessKill(t) /\ MgrFrame)
        /\ WF_vars(KillProcessWait(t) /\ MgrFrame)
        /\ SF_vars(KillProcessDelete(t) /\ MgrFrame)

\* DestroyEnvironment and Shutdown hold m.mu from their first step on
TeardownFairness ==
    \A t \in Threads :
        /\ WF_vars(KillLoopNext(t) /\ MgrFrame)
        /\ WF_vars(KillLoopWait(t) /\ MgrFrame)
        /\ WF_vars(DestroyEnvironmentFinish(t) /\ MgrFrame)
        /\ WF_vars(ShutdownFinish(t) /\ MgrFrame)

\* The handlers and goroutines that deal with spawned processes, with
\* RestoreEnvironment to make the environments they belong to.
ProcNext ==
    \/ \E t \in Threads : RestoreEnvironment(t) /\ MgrFrame
    \/ \E t \in Threads, h \in Issued : SpawnProcessBegin(t, h) /\ MgrFrame
    \/ \E t \in Threads : SpawnProcessStart(t) /\ MgrFrame
    \/ \E t \in Threads : SpawnProcessRegister(t) /\ MgrFrame
    \/ \E p \in Handles : ProcessExits(p) /\ MgrFrame
    \/ \E p \in Handles : MonitorWait(p) /\ MgrFrame
    \/ \E p \in Handles : MonitorRecord(p) /\ MgrFrame
    \/ \E p \in Handles : MonitorClose(p) /\ MgrFrame
    \/ \E t \in Threads, h \in Issued : KillProcessBegin(t, h) /\ MgrFrame
    \/ \E t \in Threads : KillProcessRead(t) /\ MgrFrame
    \/ \E t \in Threads : KillProcessKill(t) /\ MgrFrame
    \/ \E t \in Threads : KillProcessWait(t) /\ MgrFrame
    \/ \E t \in Threads : KillProcessDelete(t) /\ MgrFrame
    \/ \E t \in Threads, h \in Issued : DestroyEnvironmentBegin(t, h) /\ MgrFrame
    \/ \E t \in Threads : ShutdownBegin(t) /\ MgrFrame
    \/ \E t \in Threads : KillLoopNext(t) /\ MgrFrame
    \/ \E t \in Threads : KillLoopWait(t) /\ MgrFrame
    \/ \E t \in Threads : DestroyEnvironmentFinish(t) /\ MgrFrame
    \/ \E t \in Threads : ShutdownFinish(t) /\ MgrFrame
    \/ \E t \in Threads, h \in Issued : GetProcessInfoCall(t, h) /\ MgrFrame

ProcSpecInit == MgrInit /\ PathIdle /\ AggInit /\ OutIdle /\ DiscIdle /\ AnnIdle

ProcSpec ==
    /\ ProcSpecInit
    /\ [][ProcNext]_vars
    /\ MonitorFairness
    /\ KillFairness
    /\ TeardownFairness

PathNext == SafeJoinCall /\ UNCHANGED <<aggVars, mgrVars, outVars, discVars, annVars>>

PathSpecInit == PathInit /\ AggInit /\ MgrInit /\ OutIdle /\ DiscIdle /\ AnnIdle

PathSpec == PathSpecInit /\ [][PathNext]_vars

\* Handles a run of the teardown handlers may issue: two environments and an
\* entity owned by each one destroyed or left.
MaxFrameHandles == 3
FrameHandles == 1..MaxFrameHandles

\* The handlers that take entities out of the registry, with the single-step
\* handlers that put them in and the goroutines of the processes.
FrameNext ==
    \/ \E t \in Threads : RestoreEnvironment(t) /\ MgrFrame
    \/ \E t \in Threads, h \in Issued : CreateREPL(t, h) /\ MgrFrame
    \/ \E t \in Threads, h \in Issued : DestroyREPL(t, h) /\ MgrFrame
    \/ \E t \in Threads, h \in Issued : SpawnProcessBegin(t, h) /\ MgrFrame
    \/ \E t \in Threads : SpawnProcessStart(t) /\ MgrFrame
    \/ \E t \in Threads : SpawnProcessRegister(t) /\ MgrFrame
    \/ \E p \in FrameHandles : ProcessExits(p) /\ MgrFrame
    \/ \E p \in FrameHandles : MonitorWait(p) /\ MgrFrame
    \/ \E p \in FrameHandles : MonitorRecord(p) /\ MgrFrame
    \/ \E p \in FrameHandles : MonitorClose(p) /\ MgrFrame
    \/ \E t \in Threads, h \in Issued : KillProcessBegin(t, h) /\ MgrFrame
    \/ \E t \in Threads : KillProcessRead(t) /\ MgrFrame
    \/ \E t \in Threads : KillProcessKill(t) /\ MgrFrame
    \/ \E t \in Threads : KillProcessWait(t) /\ MgrFrame
    \/ \E t \in Threads : KillProcessDelete(t) /\ MgrFrame
    \/ \E t \in Threads, h \in Issued : DestroyEnvironmentBegin(t, h) /\ MgrFrame
    \/ \E t \in Threads : KillLoopNext(t) /\ MgrFrame
    \/ \E t \in Threads : KillLoopWait(t) /\ MgrFrame
    \/ \E t \in Threads : DestroyEnvironmentFinish(t) /\ MgrFrame

FrameSpecInit ==
    MgrInitWith(FrameHandles) /\ PathIdle /\ AggInit /\ OutIdle /\ DiscIdle /\ AnnIdle

FrameSpec == FrameSpecInit /\ [][FrameNext]_vars

\* the workspace operations on their own, each called once on a workspace
\* directory and a path argument
WsNext ==
    \E op \in WorkspaceOps :
       WorkspaceCall(op) /\ UNCHANGED <<aggVars, mgrVars, outVars, discVars, annVars>>

WsSpec == PathSpecInit /\ [][WsNext]_vars

AggSpecInit == PathIdle /\ AggInit /\ MgrInit /\ OutIdle /\ DiscIdle /\ AnnIdle

AggSpec == AggSpecInit /\ [][AggNext]_vars

OutSpecInit == PathIdle /\ AggInit /\ MgrInit /\ OutInit /\ DiscIdle /\ AnnIdle

OutSpec == OutSpecInit /\ [][OutNext]_vars

DiscSpecInit == PathIdle /\ AggInit /\ MgrInit /\ OutIdle /\ DiscInit /\ AnnIdle

AnnSpecInit == PathIdle /\ AggInit /\ MgrInit /\ OutIdle /\ DiscIdle /\ AnnInit

AnnSpec == AnnSpecInit /\ [][AnnNext]_vars

\* The goroutine running Discover is scheduled, and time passes; that a
\* datagram or a socket error arrives is not assumed.
DiscSpec ==
    /\ DiscSpecInit
    /\ [][DiscNext]_vars
    /\ WF_vars(DiscoverSetup /\ DiscFrame)
    /\ WF_vars(DiscoverSelect /\ DiscFrame)
    /\ WF_vars(DiscoverReadTimeout /\ DiscFrame)
    /\ WF_vars(DeadlinePasses /\ DiscFrame)

(***************************************************************************)
(* Properties of the Manager                                              *)
(***************************************************************************)

\* the handles ListProcesses and ListREPLs give for an environment
ListedUnder(h) ==
    {i.id : i \in {j \in ListProcesses : j.envID = h}}
        \cup {i.id : i \in {j \in ListREPLs : j.envID = h}}

\* C1: once DestroyEnvironment(h) has returned without error, whatever
\* handlers were in flight for h meanwhile, GetEnvironment(h) fails with
\* not-found and neither ListProcesses nor ListREPLs lists an entry whose
\* owning environment is h.
C1_DestroyedEnvironmentLeavesNothing ==
    \A h \in Handles :
        destroyRet[h] = "nil" =>
            /\ GetEnvironment(h).err = "notFound"
            /\ ListedUnder(h) = {}

\* C2: for every version the base build that succeeds happens at most once,
\* and exactly once when an environment of that version was derived from a
\* base; every caller past getOrCreateBase, and every environment derived
\* from a base, holds the one base object cached for its version; the
\* handles registered are those drawn, each once.
C2_OneBuildOneBase ==
    /\ \A v \in Versions : basesBuilt[v] <= 1
    /\ \A v \in Versions : baseEnvironments[v] # NoBase => basesBuilt[v] = 1
    /\ \A t \in Threads :
          pc[t] \in {"ce_venv", "ce_register"} =>
              /\ tl[t].base # NoBase
              /\ tl[t].base = baseEnvironments[tl[t].ver]
    /\ \A e \in DOMAIN environments :
          environments[e].base # NoBase =>
              /\ basesBuilt[environments[e].ver] = 1
              /\ environments[e].base = baseEnvironments[environments[e].ver]
    /\ DOMAIN environments \subseteq Issued

\* a caller that found no base at its first look-up now holds baseMu and
\* finds the base a concurrent caller for the same version built
C2_Witness ==
    \E t, u \in Threads :
        /\ t # u
        /\ pc[t] = "ce_check2"
        /\ pc[u] \in {"ce_venv", "ce_register"}
        /\ tl[t].ver = tl[u].ver
        /\ baseEnvironments[tl[t].ver] # NoBase

\* the callers inside getOrCreateBase's locked region
Building == {t \in Threads : pc[t] \in {"ce_check2", "ce_build", "ce_store"}}

C4_KillCompletedDeregisters ==
    \A p \in DOMAIN procs :
        procs[p].os = "exited" =>
            /\ destroyRet[p] # "killFailed"
            /\ destroyRet[p] = "nil" => p \notin spawnedProcesses

\* C5: a process that a reader sees as not running (exited, with its exit
\* code) has its done channel closed.
C5_ExitedOnlyAfterDone ==
    \A p \in DOMAIN procs :
        (procs[p].exited \/ ~ProcessInfoOf(p).running) => Done(p)

\* the handle resolves nowhere and no list shows it
Unresolvable(h) ==
    /\ GetEnvironment(h).err = "notFound"
    /\ GetREPL(h).err = "notFound"
    /\ GetProcessInfo(h).err = "notFound"
    /\ h \notin ListEnvironments
    /\ \A i \in ListREPLs : i.id # h
    /\ \A i \in ListProcesses : i.id # h

C7_SessionsFollowEnvironment ==
    /\ [](\A r \in DOMAIN replSessions :
             replSessions[r].envID \in DOMAIN environments)
    /\ [][\A t \in Threads :
            (/\ pc[t] = "kl_next"
             /\ tl[t].op = "DestroyEnvironment"
             /\ pc'[t] = "idle") =>
                \A r \in SessionsOf(tl[t].h) :
                    r \notin DOMAIN replSessions' /\ r \in replClosed']_vars

\* DestroyEnvironment returned nil for an environment whose session it closed
\* and deregistered
C7_Witness ==
    \E h, r \in Handles :
        /\ destroyRet[h] = "nil"
        /\ h \notin DOMAIN environments
        /\ r \in replClosed
        /\ r \notin DOMAIN replSessions
        /\ destroyRet[r] = NotReturned

\* C8: when AddRemote's connection succeeds but the tool-list fetch fails, it
\* returns an error, the peer is not in the connected set, neither GetAllTools
\* nor the name mapping holds an entry for that peer, and the half-open client
\* connection has been closed.
C8_FetchFailureLeavesNothing ==
    (aggLast.op = "AddRemote" /\ aggLast.outcome = "fetchFail") =>
        /\ aggLast.err
        /\ aggLast.name \notin DOMAIN remotes
        /\ \A n \in DOMAIN remotes : remotes[n] # aggLast.cid
        /\ \A n \in DOMAIN toolMapping :
              /\ toolMapping[n].remote # aggLast.cid
              /\ ~HasPrefix(n, aggLast.name \o <<":">>)
        /\ \A t \in GetAllTools :
              /\ t.remote # aggLast.cid
              /\ ~HasPrefix(t.name, aggLast.name \o <<":">>)
        /\ clients[aggLast.cid].conn = "closed"

\* a fetch failure happened while another peer was connected with tools
C8_Witness ==
    /\ aggLast.op = "AddRemote"
    /\ aggLast.outcome = "fetchFail"
    /\ DOMAIN remotes # {}
    /\ DOMAIN toolMapping # {}

\* C9: in every reachable state every entry of the namespaced-name mapping
\* references a RemoteClient that is currently a value of the remotes map.
C9_MappingReferencesConnected ==
    \A n \in DOMAIN toolMapping :
        \E i \in DOMAIN remotes : remotes[i] = toolMapping[n].remote

\* a peer was removed while another peer's entries stayed in the mapping
C9_Witness ==
    /\ aggLast.op = "RemoveRemote"
    /\ aggLast.outcome = "removed"
    /\ clients[aggLast.cid].tools # {}
    /\ DOMAIN toolMapping # {}

(***************************************************************************)
(* Reference semantics for the path guard's claims: where a candidate     *)
(* leads when it is walked component by component from the base.          *)
(***************************************************************************)
RealComps(p) == SelectSeq(SplitPath(p), LAMBDA c : c # <<>> /\ c # Dot)

\* Walks the components of rel from the directory stack `at`; ".." at the
\* root stays at the root.
RECURSIVE Walk(_, _)
Walk(at, cs) ==
    IF Len(cs) = 0 THEN at
    ELSE IF Head(cs) = DotDot
         THEN Walk(IF Len(at) = 0 THEN at ELSE Front(at), Tail(cs))
         ELSE Walk(Append(at, Head(cs)), Tail(cs))

Resolved(base, rel) == Walk(RealComps(base), RealComps(rel))

IsCompPrefix(p, s) == Len(p) <= Len(s) /\ SubSeq(s, 1, Len(p)) = p

\* C10: safeJoinPath never returns a path outside base: whenever it returns a
\* path, the candidate was not absolute, the path is the candidate walked from
\* base, and base's components are a prefix of the path's components; so an
\* absolute candidate, a ".." escape and a sibling sharing base as a string
\* prefix are all refused with an error and no path.
C10_NeverOutsideBase ==
    pgPc = "done" =>
        /\ (pgOut.ok =>
              /\ ~IsAbs(pgRel)
              /\ RealComps(pgOut.path) = Resolved(pgBase, pgRel)
              /\ IsCompPrefix(RealComps(pgBase), RealComps(pgOut.path)))
        /\ ((IsAbs(pgRel)
             \/ ~IsCompPrefix(RealComps(pgBase), Resolved(pgBase, pgRel)))
              => (~pgOut.ok /\ pgOut.path = <<>> /\ pgOut.err # "none"))

\* a sibling directory sharing base as a string prefix was presented and refused
C10_Witness ==
    /\ pgPc = "done"
    /\ pgBase = <<"/", "a">>
    /\ pgRel = <<".", ".", "/", "a", "a">>
    /\ ~pgOut.ok

\* the lexically cleaned join of an absolute base and a candidate
CleanedJoin(base, rel) == <<Sep>> \o JoinComps(Resolved(base, rel))

\* C11: for every non-absolute candidate whose lexically cleaned join with
\* base is base itself or a descendant of base, safeJoinPath succeeds and
\* returns exactly that cleaned absolute path.
C11_InsideBaseAccepted ==
    (/\ pgPc = "done"
     /\ ~IsAbs(pgRel)
     /\ IsCompPrefix(RealComps(pgBase), Resolved(pgBase, pgRel))) =>
        /\ pgOut.ok
        /\ pgOut.path = CleanedJoin(pgBase, pgRel)

\* the last n elements of a sequence (all of it when it is shorter)
LastN(q, n) == IF Len(q) > n THEN SubSeq(q, Len(q) - n + 1, Len(q)) ELSE q

\* C12: outside outputMu the buffer never holds more than maxLines lines
\* and is exactly the last maxLines lines appended, in append order,
\* whichever goroutine appended them; GetProcessOutput(handle, 0) returns
\* exactly the last maxLines of the lines appended by the time it reads.
C12_BufferKeepsLastLines ==
    /\ Len(outputLines) <= maxLines
    /\ outputLines = LastN(appended, maxLines)
    /\ (gpoPc = "done" /\ gpoOut.err = "none" /\ gpoArg.n = 0) =>
          gpoOut.lines = LastN(SubSeq(appended, 1, gpoOut.at), maxLines)

\* more lines than the capacity were appended and the whole buffer was read
C12_Witness ==
    /\ Len(appended) > maxLines
    /\ gpoPc = "done"
    /\ gpoOut.err = "none"
    /\ gpoArg.n = 0
    /\ gpoOut.at > maxLines
    /\ Len(gpoOut.lines) = maxLines

\* the buffer as it was when the call read it
BufferAt(k) == LastN(SubSeq(appended, 1, k), maxLines)

\* C20: GetProcessOutput(handle, n) on a capture-enabled process returns the
\* whole buffer, in order, when n <= 0 or n >= its length, and otherwise
\* exactly its last n lines; with capture disabled it fails with the
\* capture-not-enabled error, on an unknown handle with not-found; and no
\* step of it changes the buffer or the registry.
C20_OutputTail ==
    /\ [](gpoPc = "done" =>
            LET buf == BufferAt(gpoOut.at)
                n == gpoArg.n
            IN /\ gpoArg.id # TheProcess => gpoOut.err = "notFound"
               /\ (gpoArg.id = TheProcess /\ ~CaptureOutput) =>
                     gpoOut.err = "captureNotEnabled"
               /\ (gpoArg.id = TheProcess /\ CaptureOutput) =>
                     /\ gpoOut.err = "none"
                     /\ (n <= 0 \/ n >= Len(buf)) => gpoOut.lines = buf
                     /\ (0 < n /\ n < Len(buf)) =>
                           /\ Len(gpoOut.lines) = n
                           /\ \A i \in 1..n :
                                 gpoOut.lines[i] = buf[Len(buf) - n + i]
               /\ gpoOut.err # "none" => gpoOut.lines = <<>>)
    /\ [][(gpoPc' # gpoPc \/ gpoArg' # gpoArg \/ gpoOut' # gpoOut) =>
            UNCHANGED <<outputLines, CaptureOutput, mgrVars>>]_vars

\* a proper tail was returned: fewer lines than the buffer held
C20_Witness ==
    /\ gpoPc = "done"
    /\ gpoOut.err = "none"
    /\ gpoArg.n > 0
    /\ gpoArg.n < Len(BufferAt(gpoOut.at))
    /\ gpoOut.lines # BufferAt(gpoOut.at)

\* C13: a KillProcess call on a registered handle, whether the process is
\* still running or has already ended by itself, returns nil and never the
\* kill error, and leaves the handle deregistered; once a call on the handle
\* has returned nil, a later KillProcess call on it returns not-found in its
\* first step, without waiting for anything.
C13_KillTwiceInSequence ==
    /\ [](failure.err # "killFailed")
    /\ [](\A p \in Handles : destroyRet[p] = "nil" => p \notin spawnedProcesses)
    /\ [][\A t \in Threads, p \in Handles :
            (/\ destroyRet[p] = "nil"
             /\ pc[t] = "idle"
             /\ tl'[t].op = "KillProcess") => tl'[t].h # p]_vars

\* C14: every KillProcess call that has found its handle eventually returns
\* (a call on an unknown handle returns in its first step), whatever the
\* process, other KillProcess calls, DestroyEnvironment and Shutdown do
\* meanwhile, given that the monitor goroutines and the running handlers
\* are scheduled.
C14_KillReturns ==
    \A t \in Threads : (tl[t].op = "KillProcess") ~> (pc[t] = "idle")

\* a KillProcess waits for the done channel while another handler, which
\* holds m.mu, waits for the same process
C14_Witness ==
    \E t, u \in Threads :
        /\ pc[t] = "kp_wait"
        /\ pc[u] = "kl_wait"
        /\ mu = u
        /\ tl[u].cur = tl[t].h
        /\ ~Done(tl[t].h)

\* C15: a process's exit state (exited, exitCode) is written in one step
\* only, the monitor goroutine's, which takes it from not-exited to exited
\* with the code; afterwards neither field changes; the done channel is
\* closed in one step only, after the exit state has been recorded, and
\* stays closed.
C15_ExitRecordedOnce ==
    /\ [](\A p \in DOMAIN procs :
            /\ Done(p) => procs[p].exited
            /\ ~procs[p].exited => procs[p].mon \in {"wait", "reaped"})
    /\ [][\A p \in DOMAIN procs \cap DOMAIN procs' :
            /\ procs[p].exited =>
                  /\ procs'[p].exited
                  /\ procs'[p].exitCode = procs[p].exitCode
            /\ (\/ procs'[p].exited # procs[p].exited
                \/ procs'[p].exitCode # procs[p].exitCode) =>
                  /\ procs[p].mon = "reaped"
                  /\ procs'[p].mon = "recorded"
                  /\ procs'[p].exited
                  /\ procs'[p].exitCode = procs[p].osCode
            /\ Done(p) => procs'[p].mon = "closed"
            /\ (procs'[p].mon = "closed" /\ ~Done(p)) =>
                  /\ procs[p].mon = "recorded"
                  /\ procs[p].exited]_vars

\* a process ended with a non-zero code, the monitor recorded it and closed
\* done, and the process is still registered
C15_Witness ==
    \E p \in spawnedProcesses :
        /\ Done(p)
        /\ procs[p].exited
        /\ procs[p].exitCode = 1

\* C16: while a registered process runs, GetProcessInfo reports it running;
\* once it has ended by itself with code c, GetProcessInfo comes to report
\* it not running with exit code c (or the handle is deregistered first),
\* and from then on reports the same for as long as the handle is registered.
C16_ExitReported ==
    /\ [](\A p \in spawnedProcesses :
            /\ procs[p].os = "running" => GetProcessInfo(p).info.running
            /\ ~GetProcessInfo(p).info.running =>
                  GetProcessInfo(p).info.exitCode = procs[p].osCode)
    /\ \A p \in Handles, c \in ExitCodes :
          (p \in spawnedProcesses /\ procs[p].os = "exited" /\ procs[p].osCode = c)
             ~> (\/ p \notin spawnedProcesses
                 \/ /\ ~GetProcessInfo(p).info.running
                    /\ GetProcessInfo(p).info.exitCode = c)
    /\ [][\A p \in spawnedProcesses \cap spawnedProcesses' :
            ~GetProcessInfo(p).info.running =>
                GetProcessInfo(p)' = GetProcessInfo(p)]_vars

\* a registered process ended by itself with code 1 and is reported so
C16_Witness ==
    \E p \in spawnedProcesses :
        /\ procs[p].osCode = 1
        /\ GetProcessInfo(p) =
              [err |-> "none",
               info |-> [id |-> p, envID |-> procs[p].envID,
                         running |-> FALSE, exitCode |-> 1]]

\* a step of thread t in which its Shutdown call returns
ShutdownReturns(t) ==
    /\ pc[t] = "kl_next"
    /\ tl[t].op = "Shutdown"
    /\ pc'[t] = "idle"

\* C17: when Shutdown returns, no child process started by SpawnProcess is
\* still running, no process and no session is registered, and from the
\* call's first step to its return the environments map (each environment
\* with its directories) is as it was.
C17_ShutdownLeavesNothingRunning ==
    [][\A t \in Threads :
         /\ ShutdownReturns(t) =>
               /\ \A p \in DOMAIN procs' : procs'[p].os # "running"
               /\ spawnedProcesses' = {}
               /\ replSessions' = << >>
         /\ (tl[t].op = "Shutdown" \/ tl'[t].op = "Shutdown") =>
               environments' = environments]_vars

\* the errors of a registering operation that found what it was called on
RegistrationFailures ==
    {"buildFailed", "venvFailed", "restoreFailed", "replFailed", "startFailed"}

\* the steps of a CreateEnvironment or SpawnProcess call before its store
BeforeStore == {"ce_lock", "ce_check2", "ce_build", "ce_store", "ce_venv", "sp_start"}

\* C18: a CreateEnvironment, RestoreEnvironment, CreateREPL or SpawnProcess
\* call that fails (base build, venv, restore, session start, child start)
\* leaves the environments, sessions and processes maps as they were and
\* issues no handle: the step that returns the error changes none of them,
\* and neither does any earlier step of the call.
C18_FailedCreationRegistersNothing ==
    [][/\ failure'.err \in RegistrationFailures =>
            UNCHANGED <<environments, replSessions, spawnedProcesses, nextHandle>>
       /\ \A t \in Threads :
            (pc'[t] # pc[t] /\ (pc[t] \in BeforeStore \/ pc'[t] \in BeforeStore)) =>
                UNCHANGED <<environments, replSessions, spawnedProcesses>>]_vars

\* a session could not be started in a registered environment while the
\* other thread is in the middle of a call
C18_Witness ==
    /\ failure.err = "replFailed"
    /\ DOMAIN environments # {}
    /\ \E u \in Threads : pc[u] # "idle"

\* a step of thread t in which its DestroyEnvironment call returns, having
\* found the environment
DestroyEnvironmentReturns(t) ==
    /\ pc[t] = "kl_next"
    /\ tl[t].op = "DestroyEnvironment"
    /\ pc'[t] = "idle"

\* C19: when DestroyEnvironment returns after the removal of the workspace
\* directory or of the root directory failed, it returns an error, and no
\* process and no session of the environment is registered.
C19_RemovalFailureReported ==
    [][\A t \in Threads :
         (/\ DestroyEnvironmentReturns(t)
          /\ \/ failure'.err = "removeFailed"
             \/ failure'.dropped = "workspaceRemoveFailed") =>
             /\ failure'.err # "none"
             /\ \A p \in spawnedProcesses' : procs'[p].envID # tl[t].h
             /\ \A r \in DOMAIN replSessions' : replSessions'[r].envID # tl[t].h]_vars

\* C21: a GetProcessInfo call can always take its look-up and return, also
\* while another handler waits for a process's done channel inside
\* KillProcess, DestroyEnvironment or Shutdown.  (States in which a handler
\* holds m.mu and is running, not waiting, are left out: there the call
\* waits only for that handler's next statement.)
C21_StatusNeverBlocks ==
    \A t \in Threads, h \in Handles :
        (pc[t] = "idle" /\ \A u \in Threads : pc[u] # "kl_next") =>
            ENABLED (GetProcessInfoCall(t, h) /\ MgrFrame)

\* the records Discover returned under instance name n
ReturnedFor(n) == {r \in dOut.records : r.InstanceName = n}

\* Discover has returned what it collected
DiscoverReturned == dPc = "done" /\ dOut.err = "none"

\* exactly two responses were heard for n, both with a port, one without a
\* note and one with note X
TwoValidOneNoted(n) ==
    /\ n \in DOMAIN heard
    /\ Len(heard[n]) = 2
    /\ heard[n][1].Port > 0
    /\ heard[n][2].Port > 0
    /\ {heard[n][1].Note, heard[n][2].Note} = {"", "X"}

\* C22: when the window hears two valid responses for one sanitized instance
\* name, one without a note and one with note X, in either order, Discover
\* returns exactly one record for that name and its note is X.
C22_DuplicateBackfillsNote ==
    DiscoverReturned =>
        \A n \in DOMAIN heard :
            TwoValidOneNoted(n) =>
                /\ Cardinality(ReturnedFor(n)) = 1
                /\ \A r \in ReturnedFor(n) : r.Note = "X"

\* the note-less response came first and the noted one second
C22_Witness ==
    /\ DiscoverReturned
    /\ \E n \in DOMAIN heard :
         /\ TwoValidOneNoted(n)
         /\ heard[n][1].Note = ""
         /\ ReturnedFor(n) # {}

\* C23: Discover returns at most one record per instance name, and that
\* record's host and port are those of the first response heard for the name;
\* the stored record's host and port are the first response's in every state,
\* so no later response changes them.
C23_FirstAddressWins ==
    /\ \A n \in DOMAIN services :
         /\ n \in DOMAIN heard
         /\ services[n].Host = heard[n][1].Host
         /\ services[n].Port = heard[n][1].Port
    /\ DiscoverReturned =>
         \A n \in {r.InstanceName : r \in dOut.records} :
             /\ Cardinality(ReturnedFor(n)) = 1
             /\ n \in DOMAIN heard
             /\ \A r \in ReturnedFor(n) :
                  /\ r.Host = heard[n][1].Host
                  /\ r.Port = heard[n][1].Port

\* a later response for a returned name came from another host with another port
C23_Witness ==
    /\ DiscoverReturned
    /\ \E n \in DOMAIN heard :
         /\ Len(heard[n]) >= 2
         /\ heard[n][2].Host # heard[n][1].Host
         /\ heard[n][2].Port > 0
         /\ heard[n][2].Port # heard[n][1].Port
         /\ ReturnedFor(n) # {}

\* the record Discover keeps for a name whose responses were infos, in order
RECURSIVE Kept(_)
Kept(infos) ==
    IF Len(infos) = 1 THEN infos[1]
    ELSE Merge(Kept(SubSeq(infos, 1, Len(infos) - 1)), infos[Len(infos)])

\* ReadFromUDP delivered a datagram that could not be unpacked or named no
\* instance
SkippedPacket == nRecv' = nRecv + 1 /\ heard' = heard

\* C24: a datagram that cannot be unpacked or names no instance changes
\* nothing and the loop goes on to its next round; once a read has been made
\* Discover returns no error; what it returns is what the responses that name
\* an instance give, whatever was skipped between them; and every returned
\* record has a port above 0 and a host.
C24_MalformedSkipped ==
    /\ [][SkippedPacket => /\ services' = services
                           /\ dPc' = "select"
                           /\ dOut' = dOut]_vars
    /\ [](dPc = "done" /\ nRecv > 0 => dOut.err = "none")
    /\ [](DiscoverReturned =>
            /\ \A n \in DOMAIN heard :
                 Kept(heard[n]).Port > 0 => ReturnedFor(n) = {Kept(heard[n])}
            /\ \A r \in dOut.records : r.Port > 0 /\ r.Host # "")

\* three datagrams were read, one of them skipped, and the two instances the
\* others named are both returned
C24_Witness ==
    /\ DiscoverReturned
    /\ nRecv = 3
    /\ Cardinality(DOMAIN heard) = 2
    /\ \A n \in DOMAIN heard : Len(heard[n]) = 1 /\ ReturnedFor(n) # {}

\* C25: a Discover that returns after the context was cancelled, its socket
\* set up, returns the records collected so far and no error; and a Discover
\* that returns with nothing collected after a socket read failed, the context
\* not cancelled, returns an error.
C25_FailureSurfaced ==
    /\ (dPc = "done" /\ ctxDone /\ dOut.err # "setupFailed") =>
           /\ dOut.err = "none"
           /\ dOut.records = mapToSlice(services)
    /\ (dPc = "done" /\ ~ctxDone /\ readFailed /\ DOMAIN services = {}) =>
           dOut.err # "none"

\* C26: once the context is cancelled, a Discover that has not returned can
\* return by a step of its own, without waiting for a datagram, a socket
\* error or the deadline; and every call eventually returns.
C26_CancelEndsWait ==
    /\ [](ctxDone /\ dPc \in {"select", "read"} =>
            ENABLED ((DiscoverSelect \/ DiscoverReadTimeout) /\ DiscFrame))
    /\ <>(dPc = "done")

\* a RemoveRemote call is the step
RemoveRemoteStep == aggLast' # aggLast /\ aggLast'.op = "RemoveRemote"

\* C27: RemoveRemote(name) for a connected peer deletes exactly the mapping
\* entries whose source is that peer, removes the peer from the connected
\* set, leaves every other peer's entries, registration and connection as
\* they were, and closes the peer's connection; for a name that is not
\* connected it changes nothing and returns no error.
C27_RemoveRemoteFrame ==
    [][RemoveRemoteStep =>
          LET name == aggLast'.name IN
          IF name \in DOMAIN remotes
          THEN LET cid == remotes[name] IN
               /\ DOMAIN remotes' = DOMAIN remotes \ {name}
               /\ \A n \in DOMAIN remotes' :
                    /\ remotes'[n] = remotes[n]
                    /\ clients'[remotes[n]] = clients[remotes[n]]
               /\ DOMAIN toolMapping' =
                      {k \in DOMAIN toolMapping : toolMapping[k].remote # cid}
               /\ \A k \in DOMAIN toolMapping' : toolMapping'[k] = toolMapping[k]
               /\ clients'[cid].conn = "closed"
               /\ ~IsConnected(clients'[cid])
          ELSE /\ remotes' = remotes
               /\ toolMapping' = toolMapping
               /\ \A n \in DOMAIN remotes : clients'[remotes[n]] = clients[remotes[n]]
               /\ ~aggLast'.err]_vars

\* a peer with tools has been removed while another peer with tools stays
\* connected
C27_Witness ==
    /\ aggLast.op = "RemoveRemote"
    /\ aggLast.outcome = "removed"
    /\ clients[aggLast.cid].tools # {}
    /\ \E n \in DOMAIN remotes : clients[remotes[n]].tools # {}
    /\ toolMapping # << >>

\* an AddRemote call on a name that AddRemote found connected is the step
AddRemoteStep == aggLast' # aggLast /\ aggLast'.op = "AddRemote"

\* C28: AddRemote with a record whose instance name is already connected
\* opens no connection, returns no error and leaves the connected set, the
\* connected clients and the name mapping unchanged, whatever note the record
\* carries.
C28_AddRemoteIdempotent ==
    [][(AddRemoteStep /\ aggLast'.name \in DOMAIN remotes) =>
          /\ remotes' = remotes
          /\ toolMapping' = toolMapping
          /\ DOMAIN clients' = DOMAIN clients
          /\ \A n \in DOMAIN remotes : clients'[remotes[n]] = clients[remotes[n]]
          /\ ~aggLast'.err]_vars

\* AddRemote has just been called for a connected peer that has tools
C28_Witness ==
    /\ aggLast.op = "AddRemote"
    /\ aggLast.outcome = "exists"
    /\ aggLast.name \in DOMAIN remotes
    /\ clients[remotes[aggLast.name]].tools # {}

\* what the proxy handler does on a name without mapping entry and on a
\* mapped peer that is not connected
ProxyRefusals(h) ==
    /\ (hPc[h] = "idle" /\ hReq'[h] # hReq[h]) =>
          IF hReq'[h].name \in DOMAIN toolMapping
          THEN /\ hPc'[h] = "check"
               /\ hReq'[h].source = toolMapping[hReq'[h].name]
          ELSE /\ hPc'[h] = "idle"
               /\ hReq'[h].result = "notFound"
               /\ hReq'[h].sentTo = NoClient
    /\ (hPc[h] = "check" /\ hPc'[h] # "check") =>
          IF IsConnected(clients[hReq[h].source.remote])
          THEN hPc'[h] = "call"
          ELSE /\ hPc'[h] = "idle"
               /\ hReq'[h].result = "disconnected"
               /\ hReq'[h].sentTo = NoClient

\* the handler forwards one call to the mapped peer under the original name
\* and returns the peer's result or a remote-call-failed error result
ForwardsOnce(h) ==
    /\ hReq'[h].sentTo = hReq[h].source.remote
    /\ hReq'[h].sentName = hReq[h].source.originalName
    /\ hReq'[h].name = PrefixedName(clients[hReq'[h].sentTo].name, hReq'[h].sentName)
    /\ hReq'[h].result \in {"forwarded", "remoteCallFailed"}

\* C29 as claimed: not found without mapping entry, disconnected when the
\* mapped peer is not connected, and otherwise one call forwarded under the
\* original name.
C29_ProxyOutcomes ==
    [][\A h \in Handlers :
          /\ ProxyRefusals(h)
          /\ (hPc[h] = "call" /\ hPc'[h] = "idle") => ForwardsOnce(h)]_vars

\* C29 amended: as claimed, except that a request whose arguments are neither
\* absent nor an object gets an invalid-arguments error result, and a peer
\* closed after the handler's connection check gets a remote-call-failed
\* error result, both with no call forwarded.
C29_ProxyOutcomesAmended ==
    [][\A h \in Handlers :
          /\ ProxyRefusals(h)
          /\ (hPc[h] = "call" /\ hPc'[h] = "idle") =>
                \/ ForwardsOnce(h)
                \/ /\ hReq'[h].result = "invalidArguments"
                   /\ hReq'[h].sentTo = NoClient
                \/ /\ ~IsConnected(clients[hReq[h].source.remote])
                   /\ hReq'[h].result = "remoteCallFailed"
                   /\ hReq'[h].sentTo = NoClient]_vars

\* a call has been forwarded and the peer's result returned
C29_Witness ==
    \E h \in Handlers :
        /\ hPc[h] = "idle"
        /\ hReq[h].result = "forwarded"
        /\ hReq[h].sentTo # NoClient

\* the (peer, original tool) pairs of the connected peers
ConnectedTools ==
    UNION { {<<n, t>> : t \in clients[remotes[n]].tools} : n \in DOMAIN remotes }

\* C30: distinct (peer, original tool) pairs of connected peers have distinct
\* namespaced names instance:original; every such name resolves, in the
\* mapping and in the tools GetAllTools registers, to that peer and that tool
\* and to no other; and no namespaced name is the name of a local tool.
C30_NamesCollisionFree ==
    /\ \A p, q \in ConnectedTools :
         p # q => PrefixedName(p[1], p[2]) # PrefixedName(q[1], q[2])
    /\ \A p \in ConnectedTools :
         /\ PrefixedName(p[1], p[2]) \in DOMAIN toolMapping
         /\ toolMapping[PrefixedName(p[1], p[2])] =
                [remote |-> remotes[p[1]], originalName |-> p[2]]
    /\ \A g, k \in GetAllTools : g.name = k.name => g = k
    /\ \A g \in GetAllTools : g.name \notin LocalToolNames

\* two peers are connected and both offer the tool t, one of them also a
\* tool whose name has a colon in it
C30_Witness ==
    /\ Cardinality(DOMAIN remotes) = 2
    /\ \A n \in DOMAIN remotes : clients[remotes[n]].tools # {}
    /\ \E n \in DOMAIN remotes : <<":", "t">> \in clients[remotes[n]].tools
    /\ \E n \in DOMAIN remotes : <<"t">> \in clients[remotes[n]].tools

\* C38: when Discover has returned, every instance for which at least one
\* response with an SRV port was heard has a record with a port above 0 in the
\* result, whatever the order of its responses.
C38_PortedInstanceReturned ==
    DiscoverReturned =>
        \A n \in DOMAIN heard :
            (\E i \in 1..Len(heard[n]) : heard[n][i].Port > 0) =>
                \E r \in ReturnedFor(n) : r.Port > 0

\* name is a non-empty token that sanitizeInstanceName leaves unchanged
IsToken(name) == name # <<>> /\ sanitizeInstanceName(name) = name

\* C31: every instance name an Announcer publishes and every instance name
\* in a record Discover returns is a non-empty token that
\* sanitizeInstanceName leaves unchanged, and sanitizeInstanceName is
\* idempotent.
C31_NamesAreTokens ==
    /\ \A i \in DOMAIN mdnsServers : IsToken(mdnsServers[i].Instance)
    /\ \A r \in dOut.records : IsToken(r.InstanceName)
    /\ \A l \in RawLabels \cup FlagNames \cup HostNames :
         sanitizeInstanceName(sanitizeInstanceName(l)) = sanitizeInstanceName(l)

\* the ranges the Announcer must not publish
IsLoopback(ip) == ip.v4 /\ ip.b0 = 127
IsLinkLocal(ip) == ip.v4 /\ ip.b0 = 169 /\ ip.b1 = 254
IsVirtualRange(ip) ==
    /\ ip.v4
    /\ \/ ip.b0 = 100 /\ ip.b1 \in 64..127
       \/ ip.b0 = 172 /\ ip.b1 \in 17..31

\* the addresses of the host that getLocalIPs may publish: IPv4 addresses of
\* physical interfaces that are up, outside the three ranges
Qualifying(host) ==
    {ip \in UNION {i.addrs : i \in {j \in host : /\ j.up
                                                 /\ ~j.loopback
                                                 /\ j.Name \notin {<<"l", "o">>,
                                                      <<"d", "o", "c", "k", "e", "r", "0">>}}} :
        ip.v4 /\ ~IsLoopback(ip) /\ ~IsLinkLocal(ip) /\ ~IsVirtualRange(ip)}

C33_StopLeavesStopped ==
    /\ [][(aRet'.op = "Stop" /\ (aServer = NoServer \/ ~mdnsServers[aServer].running)) =>
             /\ mdnsServers' = mdnsServers
             /\ ~aRet'.err]_vars
    /\ [](aRet.op = "Stop" => \A i \in DOMAIN mdnsServers : ~mdnsServers[i].running)

\* C34: no handler holds m.mu while it waits for a process's done channel.
C34_MuNotHeldWhileWaiting ==
    \A t \in Threads : pc[t] = "kl_wait" => mu # t

\* the next step of a handler of thread t that is past its first step and is
\* not a CreateEnvironment
HandlerStep(t) ==
    \/ SpawnProcessStart(t) \/ SpawnProcessRegister(t)
    \/ KillProcessRead(t) \/ KillProcessKill(t) \/ KillProcessWait(t)
    \/ KillProcessDelete(t)
    \/ KillLoopNext(t) \/ KillLoopWait(t)
    \/ DestroyEnvironmentFinish(t) \/ ShutdownFinish(t)

\* the process whose done channel thread t waits on, if any
AwaitedBy(t) ==
    IF pc[t] = "kl_wait" THEN {tl[t].cur}
    ELSE IF pc[t] = "kp_wait" THEN {tl[t].h}
    ELSE {}

\* the next step of process p's monitor goroutine
MonitorStep(p) == MonitorWait(p) \/ MonitorRecord(p) \/ MonitorClose(p)

\* every call on registered entities that thread t could make can be made now
CallsOpenTo(t) ==
    \A h \in Issued :
       /\ ENABLED (GetProcessInfoCall(t, h) /\ MgrFrame)
       /\ ENABLED (DestroyEnvironmentBegin(t, h) /\ MgrFrame)
       /\ ENABLED (DestroyREPL(t, h) /\ MgrFrame)
       /\ ENABLED (KillProcessBegin(t, h) /\ MgrFrame)
       /\ nextHandle <= MaxHandles =>
             /\ ENABLED (CreateREPL(t, h) /\ MgrFrame)
             /\ ENABLED (SpawnProcessBegin(t, h) /\ MgrFrame)

\* the call thread t is in can take its next step, or the monitor goroutine
\* of the process it waits for can
CallProceeds(t) ==
    \/ ENABLED (HandlerStep(t) /\ MgrFrame)
    \/ \E p \in AwaitedBy(t) : ENABLED (MonitorStep(p) /\ MgrFrame)

\* C35: while some thread builds a shared base inside CreateEnvironment it
\* does not hold m.mu, and every look-up, DestroyEnvironment, CreateREPL,
\* DestroyREPL and process call of another thread on registered entities can
\* start and take each of its steps without the build finishing.
C35_BuildLeavesRegistryOpen ==
    \A b \in Threads :
       pc[b] = "ce_build" =>
          /\ mu # b
          /\ \A t \in Threads \ {b} :
                /\ pc[t] = "idle" => CallsOpenTo(t)
                /\ pc[t] \in {"sp_start", "sp_register", "kp_read", "kp_kill",
                              "kp_wait", "kp_delete", "kl_next", "kl_wait"}
                      => CallProceeds(t)

\* a DestroyEnvironment holds m.mu, taken after the build began, while the
\* other thread is still building
C35_Witness ==
    \E b, t \in Threads :
       /\ pc[b] = "ce_build"
       /\ pc[t] = "kl_next"
       /\ tl[t].op = "DestroyEnvironment"
       /\ mu = t

\* the next step of a CreateEnvironment of thread t that is past its first step
CreateStep(t) ==
    \/ GetBaseLock(t) \/ GetBaseRecheck(t) \/ GetBaseBuild(t) \/ GetBaseStore(t)
    \/ CreateEnvironmentVenv(t) \/ CreateEnvironmentRegister(t)

\* thread t's handler can take its next step, or the monitor goroutine of the
\* process it waits for can
Proceeds(t) ==
    \/ ENABLED ((HandlerStep(t) \/ CreateStep(t)) /\ MgrFrame)
    \/ \E p \in AwaitedBy(t) : ENABLED (MonitorStep(p) /\ MgrFrame)

\* the threads holding a lock that thread t's next step takes
HoldersAhead(t) ==
    IF pc[t] = "ce_lock" THEN {baseMu} \ {NoThread}
    ELSE IF pc[t] \in {"ce_check2", "ce_store", "ce_register", "sp_register",
                       "kp_delete"}
    THEN {mu} \ {NoThread}
    ELSE {}

\* the run has used up its handles: thread t's next step would draw one
OutOfHandles(t) ==
    /\ pc[t] \in {"ce_register", "sp_start"}
    /\ nextHandle > MaxHandles

\* C36: no reachable state is a deadlock: a handler that has begun can take
\* its next step, or the monitor goroutine it waits for can, or it waits for
\* a lock whose holder is another handler that can: no handler waits for a
\* lock it holds itself, none for a lock held by a handler that is stuck, and
\* none on a done channel whose closing needs a lock the waiter holds.
C36_NoDeadlock ==
    \A t \in Threads :
       (pc[t] # "idle" /\ ~OutOfHandles(t)) =>
          \/ Proceeds(t)
          \/ \E h \in HoldersAhead(t) \ {t} : Proceeds(h)

\* a handler waits on a process's done channel holding m.mu while another
\* handler waits for m.mu holding baseMu
C36_Witness ==
    \E t, b \in Threads :
       /\ pc[t] = "kl_wait"
       /\ mu = t
       /\ pc[b] = "ce_store"
       /\ baseMu = b

\* the caller's path leaves the workspace: walked from the workspace
\* directory it ends at a place that is not under it
Escapes ==
    ~IsAbs(pgRel) /\ ~IsCompPrefix(RealComps(pgBase), Resolved(pgBase, pgRel))

\* C37: every workspace operation taking a caller-supplied relative path acts
\* only on paths inside the workspace directory, and a path that resolves
\* outside it is refused with an error before anything is handed to the file
\* system, git or Python.
C37_WorkspaceOpsStayInside ==
    pgPc = "acted" =>
       /\ \A p \in wsTouched : IsCompPrefix(RealComps(pgBase), RealComps(p))
       /\ Escapes => (~pgOut.ok /\ wsTouched = {})

\* the same statement for the six operations other than the git clone
WorkspaceOpsButCloneStayInside ==
    (pgPc = "acted" /\ wsOp # "gitClone") =>
       /\ \A p \in wsTouched : IsCompPrefix(RealComps(pgBase), RealComps(p))
       /\ Escapes => (~pgOut.ok /\ wsTouched = {})

\* thread t takes a step of a handler op that runs in several steps
StepOf(t, op) ==
    /\ tl[t].op = op \/ tl'[t].op = op
    /\ <<pc[t], tl[t]>> # <<pc'[t], tl'[t]>>

\* the handle a several-step handler of thread t was called with
CalledWith(t) == IF tl[t].h # NoHandle THEN tl[t].h ELSE tl'[t].h

\* a DestroyREPL step: the one handler that closes or removes a session, or
\* returns for one, without any thread changing its position
DestroyREPLStep ==
    /\ pc' = pc /\ tl' = tl
    /\ \/ replClosed' # replClosed
       \/ DOMAIN replSessions' # DOMAIN replSessions /\ nextHandle' = nextHandle

EnvironmentUntouched(e) ==
    e \in DOMAIN environments' /\ environments'[e] = environments[e]

ProcessUntouched(p) ==
    /\ p \in spawnedProcesses'
    /\ p \in DOMAIN procs' /\ procs'[p] = procs[p]

SessionUntouched(s) ==
    /\ s \in DOMAIN replSessions' /\ replSessions'[s] = replSessions[s]
    /\ s \in replClosed' <=> s \in replClosed

\* C39: a step of DestroyEnvironment(h) leaves every other environment, and
\* every process and session owned by an environment other than h, registered
\* and as it was (not killed, not closed); a step of KillProcess(p) changes
\* no environment, no session and no process other than p; DestroyREPL(s)
\* changes no environment, no process and no session other than s.
C39_DestroyFrame ==
    [][/\ \A t \in Threads :
            StepOf(t, "DestroyEnvironment") =>
               /\ \A e \in DOMAIN environments \ {CalledWith(t)} :
                     EnvironmentUntouched(e)
               /\ \A p \in spawnedProcesses :
                     procs[p].envID # CalledWith(t) => ProcessUntouched(p)
               /\ \A s \in DOMAIN replSessions :
                     replSessions[s].envID # CalledWith(t) => SessionUntouched(s)
       /\ \A t \in Threads :
            StepOf(t, "KillProcess") =>
               /\ \A e \in DOMAIN environments : EnvironmentUntouched(e)
               /\ \A s \in DOMAIN replSessions : SessionUntouched(s)
               /\ \A p \in spawnedProcesses \ {CalledWith(t)} : ProcessUntouched(p)
       /\ DestroyREPLStep =>
            /\ \A e \in DOMAIN environments : EnvironmentUntouched(e)
            /\ \A p \in spawnedProcesses : ProcessUntouched(p)
            /\ \E s \in DOMAIN replSessions :
                  \A r \in DOMAIN replSessions \ {s} : SessionUntouched(r)
      ]_vars

\* environment 1 has been destroyed while environment 2 and its session 3
\* are registered and the session open
C39_Witness ==
    /\ destroyRet[1] = "nil"
    /\ 1 \notin DOMAIN environments
    /\ 2 \in DOMAIN environments
    /\ 3 \in DOMAIN replSessions
    /\ replSessions[3].envID = 2
    /\ 3 \notin replClosed

\* thread t's base build fails in this step: getOrCreateBase returns the error
BuildFails(t) == pc[t] = "ce_build" /\ pc'[t] = "idle"

\* a CreateEnvironment for a version with no cached base gets to the build
\* again and the build can succeed: each step on the way is possible
RetryOpen ==
    \A t \in Threads :
       /\ (pc[t] = "idle" /\ mu = NoThread /\ nextHandle \in DOMAIN destroyRet) =>
             \A v \in Versions :
                baseEnvironments[v] = NoBase =>
                   ENABLED (CreateEnvironmentBegin(t, v) /\ pc'[t] = "ce_lock"
                            /\ MgrFrame)
       /\ (pc[t] = "ce_lock" /\ baseMu = NoThread) =>
             ENABLED (GetBaseLock(t) /\ MgrFrame)
       /\ (pc[t] = "ce_check2" /\ mu = NoThread
           /\ baseEnvironments[tl[t].ver] = NoBase) =>
             ENABLED (GetBaseRecheck(t) /\ pc'[t] = "ce_build" /\ MgrFrame)
       /\ pc[t] = "ce_build" =>
             ENABLED (GetBaseBuild(t) /\ pc'[t] = "ce_store" /\ MgrFrame)

\* C40: a failed shared-base build stores no base for its version or any
\* other and releases the build lock; afterwards a CreateEnvironment for the
\* version gets to the build again and the build can succeed; and no step
\* removes or replaces a base once it is cached.
C40_FailedBuildNotCached ==
    /\ []RetryOpen
    /\ [][/\ \A t \in Threads :
               BuildFails(t) =>
                  /\ baseEnvironments' = baseEnvironments
                  /\ baseEnvironments'[tl[t].ver] = NoBase
                  /\ baseMu' = NoThread
          /\ \A v \in Versions :
               baseEnvironments[v] # NoBase =>
                  baseEnvironments'[v] = baseEnvironments[v]
         ]_vars

\* a build has just failed for the one version that has no base, the base of
\* the other version is cached, the build lock is free and a second
\* CreateEnvironment for the failed version waits to take it
C40_Witness ==
    /\ failure.err = "buildFailed"
    /\ baseMu = NoThread
    /\ \E v \in Versions : baseEnvironments[v] # NoBase
    /\ \E t \in Threads :
          /\ pc[t] = "ce_lock"
          /\ baseEnvironments[tl[t].ver] = NoBase

====
